---- MODULE Spec2Model ----
(***************************************************************************)
(* Interview session state machine of backend/app/api/v1/endpoints/        *)
(* interview.py together with the state kept by AdvancedInterviewEngine    *)
(* (backend/app/services/interview/advanced_engine.py).                    *)
(*                                                                         *)
(* Handlers are coroutines: a handler runs without interruption up to its  *)
(* next await of an external call (the LLM behind an httpx.AsyncClient) and*)
(* other handlers may run while it is suspended.  Every handler is a task  *)
(* with a program counter; one action is the code between two awaits.      *)
(*                                                                         *)
(* Abstractions: a question keeps its text identity, its topic and its     *)
(* is_follow_up tag (and its question_type where the strategy is examined  *)
(* on its own); a response keeps the counts that _assess_answer_depth      *)
(* reads; a successful LLM call returns well-typed JSON (a failure of the  *)
(* call, a timeout and unparsable JSON all raise inside generate_json).    *)
(* The basic InterviewEngine and BehavioralAnalytics are not part of the   *)
(* modelled sources: their calls are taken to return (the basic engine     *)
(* with its own fallbacks), and the basic depth check is taken to be the   *)
(* heuristic of _assess_answer_depth.                                      *)
(***************************************************************************)
EXTENDS Integers, Sequences, FiniteSets, TLC

VARIABLES
    sessions,   \* interview_sessions: session id -> session dict
    engines,    \* the engine objects created so far (heap), by engine id
    tasks,      \* the handler invocations: program counter, locals, result
    issued,     \* number of session ids (uuid4) handed out so far
    last,       \* the response most recently returned to a client
    call        \* a service method called on its own, outside any session:
                \* its arguments as the caller holds them and its result

vars == <<sessions, engines, tasks, issued, last, call>>

-----------------------------------------------------------------------------
(* Bounds of the model and program constants *)

MaxSessions == 2
MaxResponses == 2
MaxSharedResponses == 1
MaxDeviations == 2
MaxSharedDeviations == 1
MinNumQuestions == 5
MaxFollowUps == 1
FallbackCount == 8
DefaultScore == 5
MaxScore == 10

Tasks == {1, 2}

ScoreKeys == {"content", "communication", "analytical", "technical_depth",
              "star_method", "authenticity"}

-----------------------------------------------------------------------------
(* Small helpers *)

Min(a, b) == IF a < b THEN a ELSE b
Max(a, b) == IF a > b THEN a ELSE b

RECURSIVE SumOver(_, _)
SumOver(f, S) ==
    IF S = {} THEN 0
    ELSE LET x == CHOOSE y \in S : TRUE IN f[x] + SumOver(f, S \ {x})

\* Python's round(): the quotient num/den rounded to the nearest integer,
\* ties to the even neighbour (num >= 0, den > 0).
RoundHalfEven(num, den) ==
    LET q == num \div den
        r == num % den
    IN  IF 2 * r < den THEN q
        ELSE IF 2 * r > den THEN q + 1
        ELSE IF q % 2 = 0 THEN q ELSE q + 1

-----------------------------------------------------------------------------
(* Questions *)

NoQuestion == [text |-> "none", topic |-> "none", is_follow_up |-> FALSE]

\* q.get("is_follow_up", False)
IsFollowUp(q) == q.is_follow_up

\* question.get("topic", "general"): the fallback follow-up carries no topic
TopicOf(q) == IF q.topic = "none" THEN "general" ELSE q.topic

FallbackTopics == <<"introduction", "strengths", "challenges", "motivation",
                    "career_goals", "teamwork", "stress_management", "growth">>

FallbackTexts == <<"fb0", "fb1", "fb2", "fb3", "fb4", "fb5", "fb6", "fb7">>

\* original_question.get("topic", "clarification")
FollowUpTopic(q) == IF q.topic = "none" THEN "clarification" ELSE q.topic

\* _get_fallback_question_dict: idx = min(question_number, len(questions) - 1)
FallbackQuestionDict(question_number) ==
    LET idx == Min(question_number, FallbackCount - 1)
    IN  [text |-> FallbackTexts[idx + 1], topic |-> FallbackTopics[idx + 1],
         is_follow_up |-> FALSE]

\* _get_fallback_follow_up: no "topic" key, is_follow_up True
FallbackFollowUp == [text |-> "fbfu", topic |-> "none", is_follow_up |-> TRUE]

\* len([q for q in questions if not q.get("is_follow_up", False)])
MainQuestionCount(questions) ==
    Cardinality({i \in 1..Len(questions) : ~IsFollowUp(questions[i])})

-----------------------------------------------------------------------------
(* Responses and the depth heuristic *)

FiveWords == [words |-> 5, digits |-> 0, specifics |-> 0, vague |-> 0,
              uses_i |-> 0, uses_we |-> 0]
Detailed  == [words |-> 120, digits |-> 3, specifics |-> 1, vague |-> 0,
              uses_i |-> 3, uses_we |-> 0]
WeOnly    == [words |-> 60, digits |-> 1, specifics |-> 0, vague |-> 1,
              uses_i |-> 0, uses_we |-> 2]

NoResponse == [words |-> 0, digits |-> 0, specifics |-> 0, vague |-> 0,
               uses_i |-> 0, uses_we |-> 0]

\* depth_score scaled by 20 (word_count / 20 is a float in the source)
DepthScore20(r) ==
    Min(r.words, 100)
    + 20 * (Min(r.digits, 3) + r.specifics - r.vague)
    - (IF r.uses_we > r.uses_i /\ r.uses_i < 2 THEN 40 ELSE 0)

DepthOf(r) ==
    IF DepthScore20(r) >= 140 THEN "deep"
    ELSE IF DepthScore20(r) >= 80 THEN "adequate"
    ELSE IF DepthScore20(r) >= 40 THEN "surface"
    ELSE "shallow"

\* _assess_answer_depth(response)
AssessAnswerDepth(r) ==
    [depth |-> DepthOf(r),
     needs_follow_up |-> DepthOf(r) \in {"shallow", "surface"}]

-----------------------------------------------------------------------------
(* Evaluations *)

RawScore(v) == [num |-> TRUE, v |-> v]
NotANumber == [num |-> FALSE, v |-> 0]

\* A parsed JSON object returned by the evaluation prompt: "scores" maps some
\* of the keys to a number or to something float() rejects; "overall_score"
\* may be absent.
RawEvaluation(v, follow_up, flags) ==
    [scores |-> [k \in ScoreKeys |-> RawScore(v)],
     has_overall |-> FALSE, overall_score |-> 0,
     follow_up_recommended |-> follow_up, red_flags |-> flags]

\* min(10, max(0, float(scores.get(key, 5)))), 5 when float() raises
ValidatedScore(raw, key) ==
    IF key \notin DOMAIN raw.scores THEN DefaultScore
    ELSE IF ~raw.scores[key].num THEN DefaultScore
    ELSE Min(MaxScore, Max(0, raw.scores[key].v))

\* _validate_evaluation(result); overall_score_x6 is six times overall_score
ValidateEvaluation(raw) ==
    LET validated == [k \in ScoreKeys |-> ValidatedScore(raw, k)]
    IN  [scores |-> validated,
         overall_score_x6 |-> IF raw.has_overall THEN 6 * raw.overall_score
                              ELSE SumOver(validated, ScoreKeys),
         red_flags |-> raw.red_flags,
         follow_up_recommended |-> raw.follow_up_recommended,
         follow_up_question |-> FALSE,
         is_default |-> FALSE]

\* _get_default_evaluation()
DefaultEvaluation ==
    [scores |-> [k \in ScoreKeys |-> DefaultScore],
     overall_score_x6 |-> 6 * DefaultScore,
     red_flags |-> 0,
     follow_up_recommended |-> FALSE,
     follow_up_question |-> FALSE,
     is_default |-> TRUE]

NoEvaluation ==
    [scores |-> <<>>, overall_score_x6 |-> 0, red_flags |-> 0,
     follow_up_recommended |-> FALSE, follow_up_question |-> FALSE,
     is_default |-> FALSE]

\* calculate_aggregate_scores(evaluations); values are tenths of a point on
\* the 0-100 scale (round(x, 1) keeps one decimal)
CalculateAggregateScores(evaluations) ==
    LET scored == {i \in 1..Len(evaluations) : DOMAIN evaluations[i].scores # {}}
        value(i, key) == IF key \in DOMAIN evaluations[i].scores
                         THEN evaluations[i].scores[key] ELSE 0
        total(key) == SumOver([i \in scored |-> value(i, key)], scored)
        keys == IF scored = {} THEN {} ELSE ScoreKeys
        perKey == [k \in keys |->
                      RoundHalfEven(total(k) * 100, Cardinality(scored))]
    IN  IF Len(evaluations) = 0 \/ keys = {} THEN <<>>
        ELSE [k \in keys \cup {"overall"} |->
                 IF k = "overall"
                 THEN RoundHalfEven(SumOver(perKey, keys), Cardinality(keys))
                 ELSE perKey[k]]

-----------------------------------------------------------------------------
(* The engine object *)

SmartGap == [question |-> "sq_gap", category |-> "gap", priority |-> "high",
             topic |-> "career"]
SmartDepth == [question |-> "sq_depth", category |-> "depth",
               priority |-> "low", topic |-> "project"]

\* AdvancedInterviewEngine.__init__ followed by initialize_interview: a fresh
\* InterviewState and the smart questions computed from the resume.  The
\* basic engine keeps none of this.
NewEngine(advanced, smart) ==
    [advanced |-> advanced,
     questions_asked |-> 0,
     areas_needing_probe |-> <<>>,
     red_flags_detected |-> <<>>,
     conversation_history |-> <<>>,
     has_insights |-> advanced /\ smart # <<>>,
     smart_questions |-> IF advanced THEN smart ELSE <<>>]

InSeq(x, s) == \E i \in 1..Len(s) : s[i] = x

RECURSIVE Without(_, _)
Without(s, x) ==
    IF s = <<>> THEN <<>>
    ELSE IF Head(s) = x THEN Tail(s)
    ELSE <<Head(s)>> \o Without(Tail(s), x)

RECURSIVE Repeat(_, _)
Repeat(x, n) == IF n = 0 THEN <<>> ELSE <<x>> \o Repeat(x, n - 1)

\* _update_state_from_evaluation, then the conversation_history.append of
\* evaluate_response_deep
UpdateStateFromEvaluation(e, question, response, evaluation) ==
    LET topic == TopicOf(question)
        areas == e.areas_needing_probe
    IN  [e EXCEPT
           !.red_flags_detected = @ \o Repeat(topic, evaluation.red_flags),
           !.areas_needing_probe =
               IF evaluation.follow_up_recommended
               THEN IF InSeq(topic, areas) THEN areas ELSE Append(areas, topic)
               ELSE IF InSeq(topic, areas) THEN Without(areas, topic)
               ELSE areas,
           !.conversation_history =
               Append(@, [question |-> question.text,
                          depth |-> AssessAnswerDepth(response).depth,
                          red_flags |-> evaluation.red_flags])]

\* sq["question"] in pq.get("question", "") for some previous question
AlreadyAsked(sq, previous_questions) ==
    \E i \in 1..Len(previous_questions) :
        previous_questions[i].text = sq.question

\* q.get("question_type", "behavioral")
QuestionTypeOf(q) ==
    IF "question_type" \in DOMAIN q THEN q.question_type ELSE "behavioral"

\* The keys of the coverage dict in their insertion order
Competencies == <<"technical_excellence", "analytical_thinking",
                  "communication", "behavioral_cultural">>

\* question_type_map.get(q_type, "behavioral_cultural")
CompetencyOfType(q_type) ==
    IF q_type \in {"technical", "resume_verification"}
    THEN "technical_excellence"
    ELSE IF q_type \in {"analytical", "situational"}
    THEN "analytical_thinking"
    ELSE "behavioral_cultural"

\* The coverage without the half point that every question adds to
\* communication
RECURSIVE CoverageOfTypesOnly(_)
CoverageOfTypesOnly(questions) ==
    IF questions = <<>>
    THEN [c \in {Competencies[i] : i \in 1..Len(Competencies)} |-> 0]
    ELSE LET n == Len(questions)
             coverage == CoverageOfTypesOnly(SubSeq(questions, 1, n - 1))
             competency == CompetencyOfType(QuestionTypeOf(questions[n]))
         IN  [coverage EXCEPT ![competency] = @ + 2]

\* _calculate_competency_coverage, counted in halves: a question adds 1.0
\* (two halves) to the competency of its type and 0.5 (one half) to
\* communication
RECURSIVE CalculateCompetencyCoverage(_)
CalculateCompetencyCoverage(questions) ==
    IF questions = <<>>
    THEN [c \in {Competencies[i] : i \in 1..Len(Competencies)} |-> 0]
    ELSE LET n == Len(questions)
             coverage == CalculateCompetencyCoverage(SubSeq(questions, 1, n - 1))
             competency == CompetencyOfType(QuestionTypeOf(questions[n]))
             counted == [coverage EXCEPT ![competency] = @ + 2]
         IN  [counted EXCEPT !["communication"] = @ + 1]

\* The lowest covered competency named first
LowestFirst(coverage) ==
    LET i == CHOOSE j \in 1..Len(Competencies) :
                 /\ \A k \in 1..Len(Competencies) :
                        coverage[Competencies[j]] <= coverage[Competencies[k]]
                 /\ \A k \in 1..(j - 1) :
                        coverage[Competencies[k]] > coverage[Competencies[j]]
    IN  Competencies[i]

\* min(competency_coverage, key=competency_coverage.get): the first key, in
\* the dict's order, whose coverage is the lowest
LowestCompetency(coverage) == LowestFirst(coverage)

\* question_types.get(lowest_competency, "behavioral")
QuestionTypeFor(competency) ==
    IF competency = "technical_excellence" THEN "technical"
    ELSE IF competency = "analytical_thinking" THEN "situational"
    ELSE "behavioral"

\* The strategy with red flags looked at before the areas needing a probe
StrategyFlagsFirst(e, previous_questions) ==
    LET unused == SelectSeq(e.smart_questions,
                            LAMBDA sq : \A i \in 1..Len(previous_questions) :
                                previous_questions[i].text # sq.question)
        lowest == LowestCompetency(CalculateCompetencyCoverage(previous_questions))
    IN  IF e.red_flags_detected # <<>>
        THEN [question_type |-> "verification", intensity |-> "challenging",
              focus_area |-> e.red_flags_detected[1],
              target_competency |-> "technical_excellence"]
        ELSE IF e.areas_needing_probe # <<>>
        THEN [question_type |-> "depth_probe", intensity |-> "deep_probe",
              focus_area |-> e.areas_needing_probe[1],
              target_competency |-> lowest]
        ELSE IF e.has_insights /\ e.smart_questions # <<>> /\ unused # <<>>
        THEN [question_type |-> unused[1].category, intensity |-> "moderate",
              focus_area |-> unused[1].topic,
              target_competency |-> "behavioral_cultural"]
        ELSE [question_type |-> QuestionTypeFor(lowest),
              intensity |-> "moderate", focus_area |-> lowest,
              target_competency |-> lowest]

\* _determine_question_strategy: the first branch that applies, of the areas
\* needing a probe, the red flags, the unused smart questions and the lowest
\* covered competency
DetermineQuestionStrategy(e, previous_questions) ==
    LET unused == SelectSeq(e.smart_questions,
                            LAMBDA sq : ~AlreadyAsked(sq, previous_questions))
        lowest == LowestCompetency(CalculateCompetencyCoverage(previous_questions))
    IN  IF e.areas_needing_probe # <<>>
        THEN [question_type |-> "depth_probe", intensity |-> "deep_probe",
              focus_area |-> e.areas_needing_probe[1],
              target_competency |-> lowest]
        ELSE IF e.red_flags_detected # <<>>
        THEN [question_type |-> "verification", intensity |-> "challenging",
              focus_area |-> e.red_flags_detected[1],
              target_competency |-> "technical_excellence"]
        ELSE IF e.has_insights /\ e.smart_questions # <<>> /\ unused # <<>>
        THEN [question_type |-> unused[1].category, intensity |-> "moderate",
              focus_area |-> unused[1].topic,
              target_competency |-> "behavioral_cultural"]
        ELSE [question_type |-> QuestionTypeFor(lowest),
              intensity |-> "moderate", focus_area |-> lowest,
              target_competency |-> lowest]

NoSmartQuestion == [question |-> "none", category |-> "none",
                    priority |-> "none", topic |-> "none"]

\* _select_smart_question without the test for questions already asked
SelectSmartQuestionAgain(e, previous_questions, strategy) ==
    LET matching == SelectSeq(e.smart_questions, LAMBDA sq :
            \/ sq.category = strategy.question_type
            \/ /\ sq.priority = "high"
               /\ strategy.intensity \in {"deep_probe", "challenging"})
        high == SelectSeq(matching, LAMBDA sq : sq.priority = "high")
    IN  IF matching = <<>> THEN NoSmartQuestion
        ELSE IF high # <<>> THEN high[1] ELSE matching[1]

\* _select_smart_question
SelectSmartQuestion(e, previous_questions, strategy) ==
    LET matching == SelectSeq(e.smart_questions, LAMBDA sq :
            /\ ~AlreadyAsked(sq, previous_questions)
            /\ \/ sq.category = strategy.question_type
               \/ /\ sq.priority = "high"
                  /\ strategy.intensity \in {"deep_probe", "challenging"})
        high == SelectSeq(matching, LAMBDA sq : sq.priority = "high")
    IN  IF matching = <<>> THEN NoSmartQuestion
        ELSE IF high # <<>> THEN high[1] ELSE matching[1]

\* _format_smart_question
FormatSmartQuestion(sq) ==
    [text |-> sq.question, topic |-> sq.topic, is_follow_up |-> FALSE]

-----------------------------------------------------------------------------
(* External results *)

\* generate_json either returns a parsed object or raises (provider error,
\* timeout, empty or unparsable text)
Failed == [ok |-> FALSE, raw |-> RawEvaluation(0, FALSE, 0), topic |-> "none",
           first_question |-> FALSE, follow_up_question |-> FALSE]

Returned(raw, topic, first, fuq) ==
    [ok |-> TRUE, raw |-> raw, topic |-> topic, first_question |-> first,
     follow_up_question |-> fuq]

SolidAnswer == RawEvaluation(7, FALSE, 0)
WeakAnswer == RawEvaluation(3, TRUE, 0)
DoubtfulAnswer == RawEvaluation(12, TRUE, 1)

EvalOutcomes ==
    {Failed, Returned(SolidAnswer, "none", FALSE, FALSE),
     Returned(WeakAnswer, "none", FALSE, FALSE),
     Returned(WeakAnswer, "none", FALSE, TRUE),
     Returned(DoubtfulAnswer, "none", FALSE, FALSE)}
QuestionOutcomes == {Failed, Returned(SolidAnswer, "design", FALSE, FALSE)}
IntroOutcomes == {Failed, Returned(SolidAnswer, "background", FALSE, FALSE),
                  Returned(SolidAnswer, "background", TRUE, FALSE)}
Responses == {FiveWords, Detailed}
SmartQuestionLists == {<<>>, <<SmartGap, SmartDepth>>}

-----------------------------------------------------------------------------
(* Handler invocations *)

NoResult == [kind |-> "none", is_complete |-> FALSE, next_question |-> NoQuestion,
             question_number |-> 0, questions_answered |-> 0,
             aggregate_scores |-> <<>>]

IdleTask ==
    [pc |-> "idle", op |-> "none", sid |-> 0, eid |-> 0,
     response |-> NoResponse, current_q_index |-> 0,
     current_question |-> NoQuestion,
     is_follow_up |-> FALSE, follow_up_count |-> 0, main_question_count |-> 0,
     evaluation |-> NoEvaluation, depth_needs |-> FALSE, num_questions |-> 0]

\* HTTPException(404), HTTPException(400), HTTPException(500)
ErrorResult(kind) == [NoResult EXCEPT !.kind = kind]

\* InterviewResponseResult / InterviewStartResponse carrying a question
QuestionResult(q, number) ==
    [NoResult EXCEPT !.kind = "ok", !.next_question = q,
                     !.question_number = number]

\* InterviewResponseResult(is_complete=True, next_question=None)
CompleteResult == [NoResult EXCEPT !.kind = "ok", !.is_complete = TRUE]

\* InterviewEndResponse counting the questions asked
EndResultOfQuestions(s) ==
    [NoResult EXCEPT !.kind = "ok",
                     !.questions_answered = Len(s.questions),
                     !.aggregate_scores = CalculateAggregateScores(s.evaluations)]

\* InterviewEndResponse
EndResult(s) ==
    [NoResult EXCEPT !.kind = "ok",
                     !.questions_answered = Len(s.responses),
                     !.aggregate_scores = CalculateAggregateScores(s.evaluations)]

\* What a call returned (or raised), with the call it answers
Finish(op, sid, result) == [op |-> op, sid |-> sid, result |-> result]

\* The handler returns: its locals are gone
Return(t, response) ==
    /\ tasks' = [tasks EXCEPT ![t] = IdleTask]
    /\ last' = response

\* The handler reaches an await
Suspend(t, locals) ==
    /\ tasks' = [tasks EXCEPT ![t] = locals]
    /\ UNCHANGED last

\* A new call is served by the first handler slot that is not running
Free(t) == tasks[t].pc = "idle"
Ready(t) == Free(t) /\ \A u \in Tasks : u < t => ~Free(u)

Known(sid) == sid \in DOMAIN sessions

\* No service method has been called on its own
NoCall == [op |-> "none"]

Init ==
    /\ sessions = <<>>
    /\ engines = <<>>
    /\ tasks = [t \in Tasks |-> IdleTask]
    /\ issued = 0
    /\ last = Finish("none", 0, NoResult)
    /\ call = NoCall

-----------------------------------------------------------------------------
(* start_interview *)

\* One engine object for the whole module, reused by every session
SharedEngine == IF engines = <<>> THEN Len(engines) + 1 ELSE Len(engines)

\* _create_engine(): a new engine object
CreateEngine == Len(engines) + 1

PutEngine(eid, e) ==
    IF eid > Len(engines) THEN Append(engines, e)
    ELSE [engines EXCEPT ![eid] = e]

\* The session dict stored by start_interview
NewSession(eid, advanced, n, questions) ==
    [num_questions |-> n,
     current_question_index |-> 0,
     questions |-> questions,
     responses |-> <<>>,
     evaluations |-> <<>>,
     status |-> "in_progress",
     engine |-> eid,
     is_advanced |-> advanced,
     current_follow_up_count |-> 0]

\* Lines 61-84: the resume lookup, the session id, the engine and
\* initialize_interview up to the await of the introduction
StartBegin(t, resume_known, advanced_ok, n, smart) ==
    /\ Ready(t)
    /\ IF ~resume_known
       THEN /\ Return(t, Finish("start", 0, ErrorResult("not_found")))
            /\ UNCHANGED <<sessions, engines, issued>>
       ELSE /\ issued < MaxSessions
            /\ issued' = issued + 1
            /\ engines' = PutEngine(CreateEngine, NewEngine(advanced_ok, smart))
            /\ Suspend(t, [IdleTask EXCEPT !.pc = "start_intro",
                                            !.op = "start",
                                            !.sid = issued + 1,
                                            !.eid = CreateEngine,
                                            !.num_questions = n])
            /\ UNCHANGED sessions

\* Lines 86-124 after the introduction returned: the session is stored, and
\* the first question is the introduction's, a smart question, or awaited
StartIntroDone(t, outcome) ==
    LET tk == tasks[t]
        e == engines[tk.eid]
        intro == [text |-> "intro", topic |-> outcome.topic,
                  is_follow_up |-> FALSE]
        strategy == DetermineQuestionStrategy(e, <<>>)
        smart == SelectSmartQuestion(e, <<>>, strategy)
        stored(qs) == sessions @@
                      (tk.sid :> NewSession(tk.eid, e.advanced, tk.num_questions, qs))
    IN  /\ tk.pc = "start_intro"
        /\ e.advanced \/ outcome.ok
        /\ UNCHANGED <<engines, issued>>
        /\ IF outcome.ok /\ outcome.first_question
           THEN /\ sessions' = stored(<<intro>>)
                /\ Return(t, Finish("start", tk.sid, QuestionResult(intro, 1)))
           ELSE IF e.advanced /\ smart # NoSmartQuestion
           THEN /\ sessions' = stored(<<FormatSmartQuestion(smart)>>)
                /\ Return(t, Finish("start", tk.sid, QuestionResult(FormatSmartQuestion(smart), 1)))
           ELSE /\ sessions' = stored(<<>>)
                /\ Suspend(t, [tk EXCEPT !.pc = "start_first_q"])

\* Lines 112-137 after generate_next_question returned
StartFirstQuestionDone(t, outcome) ==
    LET tk == tasks[t]
        e == engines[tk.eid]
        q == IF ~e.advanced
             THEN [text |-> "basic", topic |-> outcome.topic,
                   is_follow_up |-> FALSE]
             ELSE IF outcome.ok
             THEN [text |-> "gen", topic |-> outcome.topic,
                   is_follow_up |-> FALSE]
             ELSE FallbackQuestionDict(0)
    IN  /\ tk.pc = "start_first_q"
        /\ e.advanced \/ outcome.ok
        /\ sessions' = [sessions EXCEPT ![tk.sid].questions = Append(@, q)]
        /\ Return(t, Finish("start", tk.sid, QuestionResult(q, 1)))
        /\ UNCHANGED <<engines, issued>>

-----------------------------------------------------------------------------
(* submit_response *)

\* Lines 157-162 without the status check
SubmitCheckOfKnownOnly(sid) ==
    IF ~Known(sid) THEN "not_found" ELSE "ok"

\* Lines 157-162: HTTPException(404) for an unknown session id,
\* HTTPException(400) unless the session is in progress
SubmitCheck(sid) ==
    IF ~Known(sid) THEN "not_found"
    ELSE IF sessions[sid].status # "in_progress" THEN "invalid_state"
    ELSE "ok"

\* Lines 157-191: the session and status checks, the current question, and
\* the evaluation up to its first await
SubmitBegin(t, sid, response) ==
    /\ Ready(t)
    /\ UNCHANGED <<sessions, engines, issued>>
    /\ IF SubmitCheck(sid) # "ok"
       THEN Return(t, Finish("submit", sid, ErrorResult(SubmitCheck(sid))))
       ELSE IF sessions[sid].current_question_index + 1 > Len(sessions[sid].questions)
       THEN \* session["questions"][current_q_index] raises IndexError
            Return(t, Finish("submit", sid, ErrorResult("error")))
       ELSE LET s == sessions[sid]
                q == s.questions[s.current_question_index + 1]
            IN  Suspend(t, [IdleTask EXCEPT
                        !.pc = IF s.is_advanced THEN "eval" ELSE "eval_depth",
                        !.op = "submit",
                        !.sid = sid,
                        !.eid = s.engine,
                        !.response = response,
                        !.current_q_index = s.current_question_index,
                        !.current_question = q,
                        !.is_follow_up = IsFollowUp(q)])

\* Lines 182-191, basic engine: evaluate_answer_depth returned and the text of
\* the resume is read for evaluate_response; the resume may have been deleted
\* since the interview started
SubmitDepthEvaluated(t, resume_known) ==
    LET tk == tasks[t]
    IN  /\ tk.pc = "eval_depth"
        /\ IF resume_known
           THEN Suspend(t, [tk EXCEPT !.pc = "eval",
                                     !.depth_needs =
                                         AssessAnswerDepth(tk.response).needs_follow_up])
           ELSE \* resume_storage[session["resume_id"]] raises KeyError
                Return(t, Finish("submit", tk.sid, ErrorResult("error")))
        /\ UNCHANGED <<sessions, engines, issued>>

\* _evaluate_with_reasoning: the validated result, or the default evaluation
\* when generate_json raised
EvaluateWithReasoning(outcome) ==
    IF outcome.ok THEN ValidateEvaluation(outcome.raw) ELSE DefaultEvaluation

\* evaluate_response of the basic engine
BasicEvaluateResponse(outcome) ==
    [ValidateEvaluation(outcome.raw) EXCEPT
        !.follow_up_question = outcome.follow_up_question]

\* Lines 220-227
NeedsFollowUp(is_advanced, evaluation, depth_needs) ==
    IF is_advanced THEN evaluation.follow_up_recommended
    ELSE depth_needs \/ evaluation.follow_up_recommended

\* Lines 229-233 without the cap
ShouldFollowUpUncapped(needs_follow_up, follow_up_count, is_follow_up) ==
    needs_follow_up

\* Lines 229-233
ShouldFollowUp(needs_follow_up, follow_up_count, is_follow_up) ==
    /\ needs_follow_up
    /\ follow_up_count < MaxFollowUps
    /\ ~is_follow_up

\* Line 238 with the comparison off by one
InterviewCompleteLate(should_follow_up, main_question_count, num_questions) ==
    ~should_follow_up /\ main_question_count > num_questions

\* Line 238
InterviewComplete(should_follow_up, main_question_count, num_questions) ==
    ~should_follow_up /\ main_question_count >= num_questions

\* Line 208 alone
StoreResponseOnly(s, response, evaluation) ==
    [s EXCEPT !.responses = Append(@, response)]

\* Lines 207-209
StoreResponse(s, response, evaluation) ==
    [s EXCEPT !.responses = Append(@, response),
              !.evaluations = Append(@, evaluation)]

\* Lines 288 and 327 alone
AppendQuestionOnly(s, q) ==
    [s EXCEPT !.questions = Append(@, q)]

\* Lines 288-290 and 327-328
AppendQuestion(s, q) ==
    [s EXCEPT !.questions = Append(@, q),
              !.current_question_index = @ + 1]

\* Line 311 left out
KeepFollowUpCount(s) == s

\* Line 311
ResetFollowUpCount(s) == [s EXCEPT !.current_follow_up_count = 0]

\* Lines 175-179 after the evaluation returned, then lines 193-328 up to the
\* next await or the return
SubmitEvaluated(t, outcome) ==
    LET tk == tasks[t]
        s == sessions[tk.sid]
        adv == s.is_advanced
        evaluation == IF adv THEN EvaluateWithReasoning(outcome)
                      ELSE BasicEvaluateResponse(outcome)
        e1 == IF adv
              THEN UpdateStateFromEvaluation(engines[tk.eid], tk.current_question,
                                             tk.response, evaluation)
              ELSE engines[tk.eid]
        s1 == StoreResponse(s, tk.response, evaluation)
        follow_up_count == s1.current_follow_up_count
        needs_follow_up == NeedsFollowUp(adv, evaluation, tk.depth_needs)
        should_follow_up == ShouldFollowUp(needs_follow_up, follow_up_count,
                                           tk.is_follow_up)
        main_question_count == MainQuestionCount(s1.questions)
        \* follow-up built from evaluation["follow_up_question"] (basic engine)
        evalFollowUp == [text |-> "eval_fu",
                         topic |-> FollowUpTopic(tk.current_question),
                         is_follow_up |-> TRUE]
        s2 == ResetFollowUpCount(s1)
        e2 == [e1 EXCEPT !.questions_asked = Len(s2.questions)]
        strategy == DetermineQuestionStrategy(e2, s2.questions)
        smart == SelectSmartQuestion(e2, s2.questions, strategy)
        s3 == AppendQuestion(s2, FormatSmartQuestion(smart))
        waiting(pc) == [tk EXCEPT !.pc = pc,
                                  !.follow_up_count = follow_up_count,
                                  !.main_question_count = main_question_count,
                                  !.evaluation = evaluation]
    IN  /\ tk.pc = "eval"
        /\ adv \/ outcome.ok
        /\ UNCHANGED issued
        /\ IF InterviewComplete(should_follow_up, main_question_count,
                                s1.num_questions)
           THEN \* lines 238-262; the advanced engine has no generate_closing,
                \* _generate_closing_message catches the AttributeError
                /\ sessions' = [sessions EXCEPT ![tk.sid] =
                                   [s1 EXCEPT !.status = "completed"]]
                /\ engines' = [engines EXCEPT ![tk.eid] = e1]
                /\ IF adv
                   THEN Return(t, Finish("submit", tk.sid, CompleteResult))
                   ELSE Suspend(t, waiting("closing"))
           ELSE IF should_follow_up
           THEN \* lines 264-286
                /\ engines' = [engines EXCEPT ![tk.eid] = e1]
                /\ IF ~adv /\ evaluation.follow_up_question
                   THEN /\ sessions' = [sessions EXCEPT ![tk.sid] =
                               [AppendQuestion(s1, evalFollowUp) EXCEPT
                                   !.current_follow_up_count = follow_up_count + 1]]
                        /\ Return(t, Finish("submit", tk.sid, QuestionResult(evalFollowUp, main_question_count)))
                   ELSE /\ sessions' = [sessions EXCEPT ![tk.sid] = s1]
                        /\ Suspend(t, waiting("follow_up"))
           ELSE \* lines 310-325
                IF adv /\ smart # NoSmartQuestion
                THEN /\ engines' = [engines EXCEPT ![tk.eid] = e2]
                     /\ sessions' = [sessions EXCEPT ![tk.sid] = s3]
                     /\ Return(t, Finish("submit", tk.sid, QuestionResult(FormatSmartQuestion(smart),
                                                  MainQuestionCount(s3.questions))))
                ELSE /\ engines' = [engines EXCEPT ![tk.eid] =
                                       IF adv THEN e2 ELSE e1]
                     /\ sessions' = [sessions EXCEPT ![tk.sid] = s2]
                     /\ Suspend(t, waiting("next_q"))

\* Lines 243-262, basic engine: generate_closing returned
SubmitClosingDone(t) ==
    LET tk == tasks[t]
    IN  /\ tk.pc = "closing"
        /\ Return(t, Finish("submit", tk.sid, CompleteResult))
        /\ UNCHANGED <<sessions, engines, issued>>

\* generate_follow_up returning nothing when generate_json raised
GenerateFollowUpOrNone(original_question, outcome) ==
    IF outcome.ok
    THEN [text |-> "follow_up", topic |-> FollowUpTopic(original_question),
          is_follow_up |-> TRUE]
    ELSE NoQuestion

\* generate_follow_up: the generated follow-up, or the canned one when
\* generate_json raised
GenerateFollowUp(original_question, outcome) ==
    IF outcome.ok
    THEN [text |-> "follow_up", topic |-> FollowUpTopic(original_question),
          is_follow_up |-> TRUE]
    ELSE FallbackFollowUp

\* Lines 288-308 after generate_follow_up returned
SubmitFollowUpDone(t, outcome) ==
    LET tk == tasks[t]
        s == sessions[tk.sid]
        q == GenerateFollowUp(tk.current_question, outcome)
    IN  /\ tk.pc = "follow_up"
        /\ s.is_advanced \/ outcome.ok
        /\ sessions' = [sessions EXCEPT ![tk.sid] =
               [AppendQuestion(s, q) EXCEPT
                   !.current_follow_up_count = tk.follow_up_count + 1]]
        /\ Return(t, Finish("submit", tk.sid, QuestionResult(q, tk.main_question_count)))
        /\ UNCHANGED <<engines, issued>>

\* _generate_question_with_reasoning: the generated question, or the fallback
\* question for len(previous_questions) when generate_json raised
GenerateQuestionWithReasoning(previous_questions, outcome) ==
    IF outcome.ok
    THEN [text |-> "gen", topic |-> outcome.topic, is_follow_up |-> FALSE]
    ELSE FallbackQuestionDict(Len(previous_questions))

\* Lines 327-346 after generate_next_question returned
SubmitNextQuestionDone(t, outcome) ==
    LET tk == tasks[t]
        s == sessions[tk.sid]
        q == IF s.is_advanced
             THEN GenerateQuestionWithReasoning(s.questions, outcome)
             ELSE [text |-> "basic", topic |-> outcome.topic,
                   is_follow_up |-> FALSE]
        s1 == AppendQuestion(s, q)
    IN  /\ tk.pc = "next_q"
        /\ s.is_advanced \/ outcome.ok
        /\ sessions' = [sessions EXCEPT ![tk.sid] = s1]
        /\ Return(t, Finish("submit", tk.sid, QuestionResult(q, MainQuestionCount(s1.questions))))
        /\ UNCHANGED <<engines, issued>>

-----------------------------------------------------------------------------
(* end_interview *)

\* Lines 468-492: no await, the handler runs in one piece
EndInterview(t, sid) ==
    /\ Ready(t)
    /\ UNCHANGED <<engines, issued>>
    /\ IF ~Known(sid)
       THEN /\ Return(t, Finish("end", sid, ErrorResult("not_found")))
            /\ UNCHANGED sessions
       ELSE /\ sessions' = [sessions EXCEPT ![sid].status = "completed"]
            /\ Return(t, Finish("end", sid, EndResult(sessions[sid])))

-----------------------------------------------------------------------------
(* Specifications *)

\* The session ids a caller may name: those handed out so far and one that
\* was not
SessionIds == 1..(issued + 1)

\* The resume is unknown, or it is known and the engine is the advanced one
\* with its smart questions or, when that cannot be built, the basic one
StartInputs ==
    {<<FALSE, TRUE, <<>>>>, <<TRUE, FALSE, <<>>>>}
        \cup {<<TRUE, TRUE, smart>> : smart \in SmartQuestionLists}

Count(seq, Test(_)) == Cardinality({i \in 1..Len(seq) : Test(seq[i])})

IsFallback(q) == InSeq(q.text, FallbackTexts) \/ q = FallbackFollowUp

\* The environment.  The plain run has short answers, a satisfied evaluator
\* and a working service; a session departs from it (a detailed answer, a
\* recommended follow-up, a failed call) fewer than max times.
Deviations(sid) ==
    LET s == sessions[sid]
    IN  Count(s.evaluations,
              LAMBDA ev : ev.is_default \/ ev.follow_up_recommended)
        + Count(s.questions, IsFallback)
        + Count(s.responses, LAMBDA r : r = Detailed)
        + Cardinality({t \in Tasks : tasks[t].sid = sid
                                     /\ tasks[t].response = Detailed})
MayDeviate(sid, max) == Known(sid) /\ Deviations(sid) < max

\* Only the basic engine's evaluation carries a follow-up question
EvalAllowed(t, o, max) ==
    /\ ~o.ok \/ o.raw.follow_up_recommended => MayDeviate(tasks[t].sid, max)
    /\ o.follow_up_question =>
           Known(tasks[t].sid) /\ ~sessions[tasks[t].sid].is_advanced
QuestionAllowed(t, o, max) == ~o.ok => MayDeviate(tasks[t].sid, max)
ResponseAllowed(sid, r, max) == r = Detailed => MayDeviate(sid, max)
\* The resume is deleted only during a run that is plain otherwise
ResumeAllowed(t, resume_known) ==
    ~resume_known => Known(tasks[t].sid) /\ Deviations(tasks[t].sid) = 0

\* Responses stored or being handled, over all sessions
RECURSIVE Stored(_)
Stored(sids) ==
    IF sids = {} THEN 0
    ELSE LET sid == CHOOSE x \in sids : TRUE
         IN  Len(sessions[sid].responses) + Stored(sids \ {sid})
Submitted ==
    Stored(DOMAIN sessions)
    + Cardinality({t \in Tasks : tasks[t].op = "submit"
                                 /\ tasks[t].pc \in {"eval", "eval_depth"}})

\* One session whose handlers interleave at their awaits.  The clients send
\* MaxResponses responses, so the session does not get as far as the closing
\* message of its last question (num_questions >= MinNumQuestions).
Next ==
    \/ \E t \in Tasks, in \in StartInputs :
          /\ in[1] => issued = 0
          /\ StartBegin(t, in[1], in[2], MinNumQuestions, in[3])
          /\ UNCHANGED call
    \/ \E t \in Tasks, o \in IntroOutcomes : StartIntroDone(t, o) /\ UNCHANGED call
    \/ \E t \in Tasks, o \in QuestionOutcomes : StartFirstQuestionDone(t, o) /\ UNCHANGED call
    \/ \E t \in Tasks, sid \in SessionIds, r \in Responses :
          /\ Known(sid) /\ sessions[sid].status = "in_progress"
                => Submitted < MaxResponses
          /\ ResponseAllowed(sid, r, MaxSharedDeviations)
          /\ SubmitBegin(t, sid, r)
          /\ UNCHANGED call
    \/ \E t \in Tasks, resume_known \in BOOLEAN :
          /\ ResumeAllowed(t, resume_known)
          /\ SubmitDepthEvaluated(t, resume_known)
          /\ UNCHANGED call
    \/ \E t \in Tasks, o \in EvalOutcomes :
          EvalAllowed(t, o, MaxSharedDeviations) /\ SubmitEvaluated(t, o) /\ UNCHANGED call
    \/ \E t \in Tasks, o \in QuestionOutcomes :
          QuestionAllowed(t, o, MaxSharedDeviations) /\ SubmitFollowUpDone(t, o) /\ UNCHANGED call
    \/ \E t \in Tasks, o \in QuestionOutcomes :
          QuestionAllowed(t, o, MaxSharedDeviations) /\ SubmitNextQuestionDone(t, o) /\ UNCHANGED call
    \/ \E t \in Tasks, sid \in SessionIds : EndInterview(t, sid) /\ UNCHANGED call

Spec == Init /\ [][Next]_vars

\* One session, its calls applied one at a time: a single handler runs from
\* its call to its return before the next call
SerialNext ==
    \/ \E in \in StartInputs :
          /\ in[1] /\ issued = 0
          /\ StartBegin(1, in[1], in[2], MinNumQuestions, in[3])
          /\ UNCHANGED call
    \/ \E o \in IntroOutcomes : StartIntroDone(1, o) /\ UNCHANGED call
    \/ \E o \in QuestionOutcomes : StartFirstQuestionDone(1, o) /\ UNCHANGED call
    \/ \E r \in Responses : ResponseAllowed(1, r, MaxDeviations) /\ SubmitBegin(1, 1, r) /\ UNCHANGED call
    \/ \E resume_known \in BOOLEAN :
          /\ ResumeAllowed(1, resume_known)
          /\ SubmitDepthEvaluated(1, resume_known)
          /\ UNCHANGED call
    \/ \E o \in EvalOutcomes : EvalAllowed(1, o, MaxDeviations) /\ SubmitEvaluated(1, o) /\ UNCHANGED call
    \/ SubmitClosingDone(1) /\ UNCHANGED call
    \/ \E o \in QuestionOutcomes : QuestionAllowed(1, o, MaxDeviations) /\ SubmitFollowUpDone(1, o) /\ UNCHANGED call
    \/ \E o \in QuestionOutcomes :
          QuestionAllowed(1, o, MaxDeviations) /\ SubmitNextQuestionDone(1, o) /\ UNCHANGED call
    \/ EndInterview(1, 1) /\ UNCHANGED call

SerialSpec == Init /\ [][SerialNext]_vars

\* MaxSessions sessions side by side, each with an advanced engine, their
\* handlers interleaving.  The service is up and returns the first question
\* with the introduction, the answers are short, and the clients send
\* MaxSharedResponses responses in all.
ServiceUp(o) == o.ok /\ o.raw.red_flags = 0

SessionsNext ==
    \/ \E t \in Tasks, in \in StartInputs :
          in[2] /\ StartBegin(t, in[1], in[2], MinNumQuestions, in[3]) /\ UNCHANGED call
    \/ \E t \in Tasks, o \in IntroOutcomes :
          o.ok /\ o.first_question /\ StartIntroDone(t, o) /\ UNCHANGED call
    \/ \E t \in Tasks, sid \in SessionIds :
          /\ Known(sid) /\ sessions[sid].status = "in_progress"
                => Submitted < MaxSharedResponses
          /\ SubmitBegin(t, sid, FiveWords)
          /\ UNCHANGED call
    \/ \E t \in Tasks, o \in EvalOutcomes :
          /\ ServiceUp(o)
          /\ EvalAllowed(t, o, MaxSharedDeviations)
          /\ SubmitEvaluated(t, o)
          /\ UNCHANGED call
    \/ \E t \in Tasks, o \in QuestionOutcomes :
          ServiceUp(o) /\ SubmitFollowUpDone(t, o) /\ UNCHANGED call
    \/ \E t \in Tasks, o \in QuestionOutcomes :
          ServiceUp(o) /\ SubmitNextQuestionDone(t, o) /\ UNCHANGED call
    \/ \E t \in Tasks, sid \in SessionIds : EndInterview(t, sid) /\ UNCHANGED call

SessionsSpec == Init /\ [][SessionsNext]_vars

-----------------------------------------------------------------------------
(* Properties *)

Idle == \A t \in Tasks : Free(t)

\* t's submit_response returns in this step, having passed the checks
SubmitReturns(t) ==
    /\ tasks[t].op = "submit"
    /\ tasks[t].pc # "idle"
    /\ tasks'[t].pc = "idle"

\* A call that ran from its first line to its return in this step
ImmediateReturn(op, sid) ==
    /\ tasks' = tasks
    /\ last'.op = op
    /\ last'.sid = sid
    /\ last' # last \/ sessions' # sessions

\* A response to session sid is stored in this step
Evaluated(sid) ==
    Len(sessions'[sid].responses) = Len(sessions[sid].responses) + 1

\* The response stored in this step leads to a follow-up: taken from the
\* evaluation, or awaited from the engine
FollowUpTriggered(sid) ==
    \/ \E t \in Tasks : /\ tasks[t].sid = sid
                        /\ tasks[t].pc = "eval"
                        /\ tasks'[t].pc = "follow_up"
    \/ /\ Len(sessions'[sid].questions) = Len(sessions[sid].questions) + 1
       /\ IsFollowUp(sessions'[sid].questions[Len(sessions'[sid].questions)])

SameLists(s1, s2) ==
    /\ s1.questions = s2.questions
    /\ s1.responses = s2.responses
    /\ s1.evaluations = s2.evaluations

\* C1: in a session whose calls are applied one at a time, the question list
\* never holds two follow-ups in a row, so a main question is followed by at
\* most one follow-up before the next main question or the completion.
C1_FollowUpCap ==
    \A sid \in DOMAIN sessions :
        LET qs == sessions[sid].questions
        IN  /\ qs # <<>> => ~IsFollowUp(qs[1])
            /\ \A i \in 1..(Len(qs) - 1) :
                   ~(IsFollowUp(qs[i]) /\ IsFollowUp(qs[i + 1]))

\* The answer to a follow-up was itself found to need a follow-up, and a main
\* question came next
C1_SecondFollowUpDenied ==
    \E sid \in DOMAIN sessions :
        LET s == sessions[sid]
        IN  \E i \in 1..Len(s.evaluations) :
                /\ i < Len(s.questions)
                /\ IsFollowUp(s.questions[i])
                /\ s.evaluations[i].follow_up_recommended
                /\ ~IsFollowUp(s.questions[i + 1])

\* C2: two submit_response calls that overlap on one session are never both
\* applied to the same current question.
C2_SubmissionsSerialized ==
    \A t1, t2 \in Tasks :
        /\ t1 # t2
        /\ tasks[t1].op = "submit" /\ tasks[t2].op = "submit"
        /\ tasks[t1].sid = tasks[t2].sid
        => tasks[t1].current_q_index # tasks[t2].current_q_index

\* C3: in every state of a session, the suspension points of interleaved
\* submissions and the states after an error included, there are as many
\* responses as evaluations.
C3_ResponsesMatchEvaluations ==
    \A sid \in DOMAIN sessions :
        Len(sessions[sid].responses) = Len(sessions[sid].evaluations)

\* Two responses are stored while a submission waits for its question and a
\* call has ended with an error
C3_StoredWhileSuspended ==
    \E sid \in DOMAIN sessions :
        /\ Len(sessions[sid].responses) = 2
        /\ \E t \in Tasks : /\ tasks[t].sid = sid
                            /\ tasks[t].pc \in {"follow_up", "next_q"}
        /\ last.result.kind \in {"error", "invalid_state"}

\* C4: the step of submit_response that stores the response completes the
\* session exactly when no follow-up is triggered and the main questions asked
\* number at least num_questions; the call then returns is_complete with no
\* next question, and with num_questions = 5 the answer to the fifth main
\* question does so.
C4_TerminationCheck ==
    [][/\ \A sid \in DOMAIN sessions :
              Evaluated(sid) =>
                  (sessions'[sid].status = "completed"
                      <=> /\ ~FollowUpTriggered(sid)
                          /\ MainQuestionCount(sessions[sid].questions)
                                 >= sessions[sid].num_questions)
       /\ \A t \in Tasks :
              SubmitReturns(t) =>
                  /\ last'.result.is_complete
                        <=> sessions'[tasks[t].sid].status = "completed"
                  /\ last'.result.is_complete
                        => last'.result.next_question = NoQuestion
      ]_vars

\* Five main questions, no follow-up, and the fifth answer completed the
\* session
C4_FifthAnswerCompletes ==
    \E sid \in DOMAIN sessions :
        LET s == sessions[sid]
        IN  /\ s.num_questions = MinNumQuestions
            /\ s.status = "completed"
            /\ Len(s.questions) = MinNumQuestions
            /\ Len(s.responses) = MinNumQuestions
            /\ MainQuestionCount(s.questions) = MinNumQuestions
            /\ last.op = "submit"
            /\ last.result.is_complete
            /\ last.result.next_question = NoQuestion

\* C5: whichever engine the session uses, when the answer to a main question
\* is one the depth heuristic finds in need of a follow-up (follow-up count 0),
\* submit_response returns a follow-up question carrying the number of the
\* main question just answered.
C5_ShallowAnswerFollowUp ==
    \A sid \in DOMAIN sessions :
        LET s == sessions[sid]
            k == Len(s.responses)
        IN  /\ Idle
            /\ last.op = "submit" /\ last.sid = sid /\ last.result.kind = "ok"
            /\ k >= 1 /\ k <= Len(s.questions)
            /\ ~IsFollowUp(s.questions[k])
            /\ AssessAnswerDepth(s.responses[k]).needs_follow_up
            => /\ IsFollowUp(last.result.next_question)
               /\ last.result.question_number =
                      MainQuestionCount(SubSeq(s.questions, 1, k))

\* C6: a submit_response that passed the checks of a session with the advanced
\* engine returns a next question or the completed result, never an error,
\* also when the evaluation, the follow-up generation or the next-question
\* generation failed; the evaluation and the question stored are the fallbacks.
C6_NeverStalls ==
    [][\A t \in Tasks :
          SubmitReturns(t) /\ engines[tasks[t].eid].advanced =>
              LET s == sessions'[tasks[t].sid]
              IN  /\ last'.result.kind = "ok"
                  /\ \/ last'.result.is_complete
                     \/ last'.result.next_question # NoQuestion
                  /\ \A i \in 1..Len(s.evaluations) :
                         s.evaluations[i] # NoEvaluation
                  /\ \A i \in 1..Len(s.questions) : s.questions[i] # NoQuestion
      ]_vars

\* The evaluation failed and then the generation of the follow-up or of the
\* next question failed: the default evaluation is stored and the fallback
\* question is returned
C6_FallbacksReturned ==
    \E sid \in DOMAIN sessions :
        LET s == sessions[sid]
        IN  /\ s.is_advanced
            /\ s.status = "in_progress"
            /\ Idle
            /\ last.op = "submit" /\ last.sid = sid /\ last.result.kind = "ok"
            /\ IsFallback(last.result.next_question)
            /\ s.evaluations # <<>>
            /\ s.evaluations[Len(s.evaluations)] = DefaultEvaluation

\* C7: submit_response with an unknown session id ends with 'not found', with
\* the id of a completed session with 'invalid state'; neither is taken up as
\* a submission and neither changes any session or engine.
C7_MisuseRejected ==
    [][/\ \A t \in Tasks :
              tasks[t].pc = "idle" /\ tasks'[t].op = "submit" =>
                  /\ Known(tasks'[t].sid)
                  /\ sessions[tasks'[t].sid].status = "in_progress"
       /\ \A sid \in SessionIds :
              /\ tasks' = tasks /\ last' # last
              /\ last'.op = "submit" /\ last'.sid = sid
              /\ ~Known(sid) \/ sessions[sid].status = "completed"
              => /\ last'.result.kind =
                        IF Known(sid) THEN "invalid_state" ELSE "not_found"
                 /\ sessions' = sessions
                 /\ engines' = engines
      ]_vars

\* A submission to a completed session was refused while another session is in
\* progress
C7_CompletedSessionRefused ==
    /\ last.op = "submit"
    /\ last.result.kind = "invalid_state"
    /\ Known(last.sid)
    /\ sessions[last.sid].status = "completed"
    /\ \E sid \in DOMAIN sessions : sessions[sid].status = "in_progress"

\* C8: end_interview on a session in progress sets its status to completed,
\* leaves its questions, responses and evaluations as they are and reports the
\* number of responses stored and the aggregate of the evaluations stored, the
\* empty aggregate when there is none.
C8_EndEarly ==
    [][\A sid \in DOMAIN sessions :
          sessions[sid].status = "in_progress" /\ ImmediateReturn("end", sid) =>
              LET s == sessions[sid]
              IN  /\ sessions'[sid] = [s EXCEPT !.status = "completed"]
                  /\ last'.result.kind = "ok"
                  /\ last'.result.questions_answered = Len(s.responses)
                  /\ last'.result.aggregate_scores =
                         IF s.evaluations = <<>> THEN <<>>
                         ELSE CalculateAggregateScores(s.evaluations)
      ]_vars

\* A session ended early with one response stored and two questions asked
C8_EndedWithResponses ==
    /\ last.op = "end"
    /\ last.result.kind = "ok"
    /\ last.result.questions_answered = 1
    /\ last.result.aggregate_scores # <<>>
    /\ Known(last.sid)
    /\ Len(sessions[last.sid].questions) = 2
    /\ sessions[last.sid].status = "completed"

\* start_interview has returned the session's id to its caller
Started(sid) ==
    ~\E t \in Tasks : tasks[t].op = "start" /\ tasks[t].sid = sid

\* C9: once a session that its caller has been given is completed, it stays
\* completed and its questions, responses and evaluations never change,
\* whatever was in flight when it completed.
C9_FrozenAtCompletion ==
    [][\A sid \in DOMAIN sessions :
          sessions[sid].status = "completed" /\ Started(sid) =>
              /\ sessions'[sid].status = "completed"
              /\ SameLists(sessions'[sid], sessions[sid])
      ]_vars

\* The step is part of an operation on session sid
OperationOn(sid) ==
    \/ \E t \in Tasks : /\ tasks[t].pc # "idle"
                        /\ tasks[t].sid = sid
                        /\ tasks'[t] # tasks[t]
    \/ \E t \in Tasks : /\ tasks[t].pc = "idle"
                        /\ tasks'[t].pc # "idle"
                        /\ tasks'[t].sid = sid
    \/ tasks' = tasks /\ last'.sid = sid

\* C10: a step changes the stored state of a session, or the state of its
\* engine, only as part of an operation on that session.
C10_SessionIsolation ==
    [][\A sid \in DOMAIN sessions :
          \/ sessions'[sid] # sessions[sid]
          \/ engines'[sessions[sid].engine] # engines[sessions[sid].engine]
          => OperationOn(sid)
      ]_vars

\* Two sessions with advanced engines: one has answered, was marked for a
\* probe and has used a smart question, the other is untouched
C10_TwoSessionsApart ==
    \E a, b \in DOMAIN sessions :
        LET ea == engines[sessions[a].engine]
            eb == engines[sessions[b].engine]
        IN  /\ a # b
            /\ ea.advanced /\ eb.advanced
            /\ Len(sessions[a].responses) = 1
            /\ ea.conversation_history # <<>>
            /\ ea.areas_needing_probe # <<>>
            /\ sessions[b].responses = <<>>
            /\ sessions[b].questions # <<>>
            /\ eb.conversation_history = <<>>
            /\ eb.areas_needing_probe = <<>>
            /\ eb.smart_questions # ea.smart_questions

-----------------------------------------------------------------------------
(* CareerAnalytics.analyze and the classifier it uses                        *)
(* (backend/app/services/analytics/career_analytics.py and                   *)
(* industry_classifier.py).  Years and months with one decimal are counted   *)
(* in tenths.  Of the insights, the date overlaps, the red flags, the        *)
(* authenticity concerns and the primary industry's percentage are left out. *)

\* Date values of an entry: None or "", "Present", "2019-01", "2019/01", "2019"
NoDate == [kind |-> "none", y |-> 0, m |-> 0]
Present == [kind |-> "present", y |-> 0, m |-> 0]
YearMonth(y, m) == [kind |-> "ym", y |-> y, m |-> m]
YearSlashMonth(y, m) == [kind |-> "slash", y |-> y, m |-> m]
YearOnly(y) == [kind |-> "y", y |-> y, m |-> 0]

\* datetime values, all on the first day of a month: None, datetime.min
NoTime == [y |-> 0, m |-> 0]
DatetimeMin == [y |-> 1, m |-> 1]
Time(y, m) == [y |-> y, m |-> m]

\* _parse_date: formats "%Y-%m", "%Y/%m", "%Y-%m-%d", "%Y"
ParseDate(d) ==
    IF d.kind \in {"ym", "slash"} THEN Time(d.y, d.m)
    ELSE IF d.kind = "y" THEN Time(d.y, 1)
    ELSE NoTime

\* get_start_date of _sort_experiences: formats "%Y-%m" and "%Y" only
GetStartDate(d) ==
    IF d.kind = "ym" THEN Time(d.y, d.m)
    ELSE IF d.kind = "y" THEN Time(d.y, 1)
    ELSE DatetimeMin

\* Order of datetime values that lie on the first of a month
MonthIndex(t) == t.y * 12 + t.m

\* date.toordinal() of the first day of a month (proleptic Gregorian)
IsLeap(y) == (y % 4 = 0 /\ y % 100 # 0) \/ y % 400 = 0
DaysInMonths == <<31, 28, 31, 30, 31, 30, 31, 31, 30, 31, 30, 31>>
ToOrdinal(t) ==
    LET before == t.y - 1
    IN  before * 365 + (before \div 4) - (before \div 100) + (before \div 400)
        + SumOver(DaysInMonths, 1..(t.m - 1))
        + (IF t.m > 2 /\ IsLeap(t.y) THEN 1 ELSE 0) + 1

\* (b - a).days
DaysBetween(a, b) == ToOrdinal(b) - ToOrdinal(a)

\* (b.year - a.year) * 12 + (b.month - a.month)
MonthsBetween(a, b) == (b.y - a.y) * 12 + (b.m - a.m)

\* round(num / den, 1) in tenths, num of either sign
RoundSigned(num, den) ==
    IF num >= 0 THEN RoundHalfEven(num, den) ELSE 0 - RoundHalfEven(0 - num, den)

\* sorted(): the place of item i, items of equal key keeping their order
\* (also with reverse=True)
Rank(keys, descending, i) ==
    Cardinality({j \in 1..Len(keys) :
        \/ IF descending THEN keys[j] > keys[i] ELSE keys[j] < keys[i]
        \/ keys[j] = keys[i] /\ j < i}) + 1

StableSort(items, keys, descending) ==
    LET n == Len(items)
        key_list == SubSeq(keys, 1, n)
        sorted == [p \in 1..n |->
                      items[CHOOSE i \in 1..n : Rank(key_list, descending, i) = p]]
    IN  SubSeq(sorted, 1, n)

\* _sort_experiences: a new list, most recent start first
SortExperiences(experiences) ==
    StableSort(experiences,
               [i \in 1..Len(experiences) |->
                   MonthIndex(GetStartDate(experiences[i].start_date))],
               TRUE)

\* key=lambda x: self._parse_date(x.get("start_date")) or datetime.min
StartKey(exp) ==
    IF ParseDate(exp.start_date) = NoTime THEN MonthIndex(DatetimeMin)
    ELSE MonthIndex(ParseDate(exp.start_date))

\* sorted(experiences, key=...): a new list, oldest start first
SortedAscending(experiences) ==
    StableSort(experiences,
               [i \in 1..Len(experiences) |-> StartKey(experiences[i])],
               FALSE)

\* The list the caller holds when _sort_experiences sorts it in place
CallerListSortedInPlace(experiences) == SortExperiences(experiences)

\* The list the caller holds after analyze: sorted() builds new lists and no
\* entry is written to
CallerListAfterAnalyze(experiences) == experiences

\* end of an entry as the span and the tenure see it
EndOrNow(exp, now) == IF exp.is_current THEN now ELSE ParseDate(exp.end_date)

\* _calculate_total_experience, in tenths of a year
CalculateTotalExperience(experiences, now) ==
    LET n == Len(experiences)
        starts == {MonthIndex(ParseDate(experiences[i].start_date)) :
                      i \in {j \in 1..n :
                                ParseDate(experiences[j].start_date) # NoTime}}
        ends == {MonthIndex(EndOrNow(experiences[i], now)) :
                    i \in {j \in 1..n : EndOrNow(experiences[j], now) # NoTime}}
        earliest_start == CHOOSE x \in starts : \A y \in starts : x <= y
        latest_end == IF ends = {} THEN MonthIndex(now)
                      ELSE CHOOSE x \in ends : \A y \in ends : x >= y
    IN  IF starts = {} THEN 0
        ELSE RoundSigned((latest_end - earliest_start) * 10, 12)

\* gap_days > 30 with the thirtieth day counted in
IsGapFromThirty(gap_days) == gap_days >= 30

\* if gap_days > 30
IsGap(gap_days) == gap_days > 30

\* Months of 31 days
GapMonthsOf31(gap_days) == gap_days \div 31

\* gap_months = gap_days // 30
GapMonths(gap_days) == gap_days \div 30

\* severity of a gap
GapSeverity(gap_months) ==
    IF gap_months < 3 THEN "minor"
    ELSE IF gap_months < 6 THEN "medium"
    ELSE "significant"

\* _analyze_gaps
AnalyzeGaps(experiences) ==
    LET sorted_asc == SortedAscending(experiences)
        n == Len(sorted_asc)
        current_end(i) == ParseDate(sorted_asc[i].end_date)
        next_start(i) == ParseDate(sorted_asc[i + 1].start_date)
        Reported(i) ==
            /\ ~sorted_asc[i].is_current
            /\ current_end(i) # NoTime
            /\ next_start(i) # NoTime
            /\ IsGap(DaysBetween(current_end(i), next_start(i)))
        pairs == SelectSeq([i \in 1..(n - 1) |-> i], Reported)
        GapInfo(i) ==
            LET gap_months == GapMonths(DaysBetween(current_end(i), next_start(i)))
            IN  [start |-> current_end(i), end |-> next_start(i),
                 duration_months |-> gap_months,
                 between_companies |-> <<sorted_asc[i].company,
                                         sorted_asc[i + 1].company>>,
                 severity |-> GapSeverity(gap_months)]
    IN  [k \in 1..Len(pairs) |-> GapInfo(pairs[k])]

\* has_significant_gaps = any(g.duration_months >= 6 for g in gaps)
HasSignificantGaps(gaps) ==
    \E k \in 1..Len(gaps) : gaps[k].duration_months >= 6

\* The effective duration of an entry in _analyze_stability
TenureMonths(exp, now) ==
    IF exp.duration_months # 0 THEN exp.duration_months
    ELSE IF ParseDate(exp.start_date) # NoTime /\ EndOrNow(exp, now) # NoTime
    THEN MonthsBetween(ParseDate(exp.start_date), EndOrNow(exp, now))
    ELSE 0

NoTenure == [company |-> "none", title |-> "none", duration_months |-> 0]

\* The job hopping risk with two short roles out of two already high
JobHoppingRiskFromTwoRoles(roles_under_1_year, tenure_count, total_months) ==
    IF roles_under_1_year >= 3 \/ (tenure_count >= 2 /\ roles_under_1_year >= 2)
    THEN "high"
    ELSE IF \/ roles_under_1_year >= 2
            \/ (tenure_count > 3 /\ total_months < 18 * tenure_count)
    THEN "medium"
    ELSE IF roles_under_1_year >= 1 \/ total_months < 24 * tenure_count
    THEN "low"
    ELSE "none"

\* The job hopping risk from the short roles, the number of tenures and the
\* sum of their months (average < 18 is total < 18 * count)
JobHoppingRisk(roles_under_1_year, tenure_count, total_months) ==
    IF roles_under_1_year >= 3 \/ (tenure_count > 2 /\ roles_under_1_year >= 2)
    THEN "high"
    ELSE IF \/ roles_under_1_year >= 2
            \/ (tenure_count > 3 /\ total_months < 18 * tenure_count)
    THEN "medium"
    ELSE IF roles_under_1_year >= 1 \/ total_months < 24 * tenure_count
    THEN "low"
    ELSE "none"

\* _analyze_stability
AnalyzeStability(experiences, now) ==
    LET all == [i \in 1..Len(experiences) |->
                   [company |-> experiences[i].company,
                    title |-> experiences[i].title,
                    duration_months |-> TenureMonths(experiences[i], now)]]
        tenures == SelectSeq(all, LAMBDA t : t.duration_months > 0)
        count == Len(tenures)
        months == [i \in 1..count |-> tenures[i].duration_months]
        total_months == SumOver(months, 1..count)
        under(limit) == Cardinality({i \in 1..count : months[i] < limit})
        shortest == CHOOSE i \in 1..count :
                        /\ \A j \in 1..count : months[i] <= months[j]
                        /\ \A j \in 1..(i - 1) : months[j] > months[i]
        longest == CHOOSE i \in 1..count :
                       /\ \A j \in 1..count : months[i] >= months[j]
                       /\ \A j \in 1..(i - 1) : months[j] < months[i]
    IN  IF count = 0
        THEN [average_tenure_months |-> 0, shortest_tenure |-> NoTenure,
              longest_tenure |-> NoTenure, job_hopping_risk |-> "none",
              roles_under_1_year |-> 0, roles_under_2_years |-> 0]
        ELSE [average_tenure_months |-> RoundHalfEven(total_months * 10, count),
              shortest_tenure |-> tenures[shortest],
              longest_tenure |-> tenures[longest],
              job_hopping_risk |-> JobHoppingRisk(under(12), count, total_months),
              roles_under_1_year |-> under(12),
              roles_under_2_years |-> under(24)]

\* COMPANY_INDUSTRY_MAP, the companies used here
KnownCompanies == {"Google", "Meta", "JPMorgan", "Pfizer"}
CompanyIndustry(company) ==
    IF company \in {"Google", "Meta"} THEN "tech"
    ELSE IF company = "JPMorgan" THEN "fintech"
    ELSE "healthcare"

\* The keywords of SENIORITY_KEYWORDS and of tech_indicators that occur in a
\* title (keyword in title_lower)
TitleKeywords(title) ==
    IF title = "Intern" THEN {"intern"}
    ELSE IF title = "Engineer" THEN {"engineer"}
    ELSE IF title = "Analyst" THEN {"analyst"}
    ELSE IF title = "Senior Engineer" THEN {"senior", "engineer"}
    ELSE IF title = "Staff Engineer" THEN {"staff", "engineer"}
    ELSE IF title = "Head of Engineering" THEN {"head of", "head", "engineer"}
    ELSE {}

\* IndustryClassifier.classify: the known company, else the keyword scores,
\* which are empty for the titles used here, else the tech indicators.  An
\* empty company name is contained in the first known company's name.
Classify(company, title) ==
    IF company = "" THEN "tech"
    ELSE IF company \in KnownCompanies THEN CompanyIndustry(company)
    ELSE IF "engineer" \in TitleKeywords(title) THEN "tech"
    ELSE "other"

\* format_industry_name
FormatIndustryName(industry_code) ==
    IF industry_code = "tech" THEN "Technology"
    ELSE IF industry_code = "fintech" THEN "Fintech"
    ELSE IF industry_code = "healthcare" THEN "Healthcare"
    ELSE IF industry_code = "other" THEN "Other"
    ELSE industry_code

\* exp.get("industry") or classify(...), then format_industry_name
IndustryOf(exp) ==
    FormatIndustryName(IF exp.industry # "" THEN exp.industry
                       ELSE Classify(exp.company, exp.title))

\* int(start_date[:4]) where the string starts with a year, else None (0)
StartYear(exp) ==
    IF exp.start_date.kind \in {"ym", "slash", "y"} THEN exp.start_date.y ELSE 0

\* The first occurrences of the values of a list, in its order
RECURSIVE Distinct(_)
Distinct(seq) ==
    IF seq = <<>> THEN <<>>
    ELSE LET front == Distinct(SubSeq(seq, 1, Len(seq) - 1))
             x == seq[Len(seq)]
         IN  IF InSeq(x, front) THEN front ELSE Append(front, x)

\* len(industries) >= 4
IsHopperFromFour(industries) == Len(industries) >= 4

\* is_hopper = len(industries) >= 3
IsHopper(industries) == Len(industries) >= 3

\* _analyze_industries.  exp.get("duration_months", 12): an entry without the
\* key is written with duration_months 0.
AnalyzeIndustries(experiences) ==
    LET n == Len(experiences)
        names == [i \in 1..n |-> IndustryOf(experiences[i])]
        industries == Distinct(names)
        weight(i) == IF experiences[i].duration_months = 0 THEN 12
                     ELSE experiences[i].duration_months
        industry_months(name) ==
            LET own == {i \in 1..n : names[i] = name}
            IN  SumOver([i \in 1..n |-> weight(i)], own)
        primary == CHOOSE k \in 1..Len(industries) :
            /\ \A j \in 1..Len(industries) :
                  industry_months(industries[k]) >= industry_months(industries[j])
            /\ \A j \in 1..(k - 1) :
                  industry_months(industries[j]) < industry_months(industries[k])
        sorted_exp == SortedAscending(experiences)
        changed == SelectSeq([i \in 1..(n - 1) |-> i + 1],
                             LAMBDA i : IndustryOf(sorted_exp[i])
                                            # IndustryOf(sorted_exp[i - 1]))
    IN  [industries |-> industries,
         transitions |->
             [k \in 1..Len(changed) |->
                 [from_industry |-> IndustryOf(sorted_exp[changed[k] - 1]),
                  to_industry |-> IndustryOf(sorted_exp[changed[k]]),
                  year |-> StartYear(sorted_exp[changed[k]]),
                  from_company |-> sorted_exp[changed[k] - 1].company,
                  to_company |-> sorted_exp[changed[k]].company]],
         is_hopper |-> IsHopper(industries),
         primary_industry |-> industries[primary]]

\* classify_seniority: the levels from the highest down, the first one with a
\* keyword in the title, else "mid"
ClassifySeniority(title) ==
    LET has(keywords) == TitleKeywords(title) \cap keywords # {}
    IN  IF has({"ceo", "cto", "cfo", "coo", "cio", "chief", "president", "vp",
                "vice president", "evp", "svp"}) THEN "executive"
        ELSE IF has({"director", "head of", "head", "general manager"})
        THEN "director"
        ELSE IF has({"staff", "principal", "distinguished", "fellow", "architect"})
        THEN "staff_principal"
        ELSE IF has({"senior", "sr.", "sr ", "lead", "tech lead", "team lead"})
        THEN "senior"
        ELSE IF has({"engineer", "developer", "analyst", "specialist", "associate"})
        THEN "mid"
        ELSE IF has({"junior", "jr.", "jr ", "entry", "intern", "graduate",
                     "trainee", "apprentice"})
        THEN "junior"
        ELSE "mid"

\* CareerAnalytics.SENIORITY_LEVELS
SENIORITY_LEVELS == <<"intern", "junior", "mid", "senior", "lead", "staff",
                      "principal", "director", "vp", "executive">>

\* _get_seniority_level: the index in SENIORITY_LEVELS, 2 for a name that is
\* not in the list
GetSeniorityLevel(seniority) ==
    IF InSeq(seniority, SENIORITY_LEVELS)
    THEN (CHOOSE i \in 1..Len(SENIORITY_LEVELS) : SENIORITY_LEVELS[i] = seniority) - 1
    ELSE 2

\* The counts of upward and downward moves in a list of levels
Upward(levels) == Cardinality({i \in 2..Len(levels) : levels[i] > levels[i - 1]})
Downward(levels) == Cardinality({i \in 2..Len(levels) : levels[i] < levels[i - 1]})

\* The trajectory with an even count of upward and downward moves going to
\* ascending
TrajectoryOfCountsUpFirst(upward, downward, lateral) ==
    IF upward >= downward /\ upward >= lateral THEN "ascending"
    ELSE IF downward > upward /\ downward >= lateral THEN "descending"
    ELSE IF lateral > upward /\ lateral > downward THEN "lateral"
    ELSE "mixed"

\* The comparison chain of _determine_trajectory
TrajectoryOfCounts(upward, downward, lateral) ==
    IF upward > downward /\ upward >= lateral THEN "ascending"
    ELSE IF downward > upward /\ downward >= lateral THEN "descending"
    ELSE IF lateral > upward /\ lateral > downward THEN "lateral"
    ELSE "mixed"

\* _determine_trajectory
DetermineTrajectory(seniority_progression) ==
    LET levels == [i \in 1..Len(seniority_progression) |->
                      GetSeniorityLevel(seniority_progression[i])]
        upward == Upward(levels)
        downward == Downward(levels)
        lateral == Len(levels) - 1 - upward - downward
    IN  IF Len(seniority_progression) < 2 THEN "unknown"
        ELSE TrajectoryOfCounts(upward, downward, lateral)

\* The change type of a title change in _analyze_trajectory
ChangeType(seniority_level, prev_seniority_level, company, prev_company) ==
    IF seniority_level > prev_seniority_level THEN "promotion"
    ELSE IF seniority_level < prev_seniority_level THEN "demotion"
    ELSE IF company # prev_company THEN "lateral"
    ELSE "role_change"

\* _analyze_trajectory
AnalyzeTrajectory(experiences) ==
    LET sorted_exp == SortedAscending(experiences)
        n == Len(sorted_exp)
        seniority_progression ==
            [i \in 1..n |-> ClassifySeniority(sorted_exp[i].title)]
        level(i) == GetSeniorityLevel(seniority_progression[i])
        changed == SelectSeq([i \in 1..(n - 1) |-> i + 1],
                             LAMBDA i : /\ sorted_exp[i - 1].title # ""
                                        /\ sorted_exp[i].title # sorted_exp[i - 1].title)
    IN  [trajectory |-> DetermineTrajectory(seniority_progression),
         seniority_progression |-> seniority_progression,
         title_changes |->
             [k \in 1..Len(changed) |->
                 LET i == changed[k]
                 IN  [from_title |-> sorted_exp[i - 1].title,
                      to_title |-> sorted_exp[i].title,
                      from_company |-> sorted_exp[i - 1].company,
                      to_company |-> sorted_exp[i].company,
                      year |-> StartYear(sorted_exp[i]),
                      change_type |-> ChangeType(level(i), level(i - 1),
                                                 sorted_exp[i].company,
                                                 sorted_exp[i - 1].company)]]]

\* _empty_insights
EmptyInsights ==
    [total_experience_years |-> 0, employment_gaps |-> <<>>,
     has_significant_gaps |-> FALSE, average_tenure_months |-> 0,
     shortest_tenure |-> NoTenure, longest_tenure |-> NoTenure,
     job_hopping_risk |-> "none", roles_under_1_year |-> 0,
     roles_under_2_years |-> 0, industries_worked |-> <<>>,
     industry_transitions |-> <<>>, is_industry_hopper |-> FALSE,
     primary_industry |-> "Unknown", trajectory |-> "unknown",
     seniority_progression |-> <<>>, title_changes |-> <<>>]

\* CareerAnalytics.analyze: the CareerInsights for a list of entries when
\* datetime.now() is now
Analyze(experiences, now) ==
    IF experiences = <<>> THEN EmptyInsights
    ELSE LET sorted_exp == SortExperiences(experiences)
             gaps == AnalyzeGaps(sorted_exp)
             stability == AnalyzeStability(sorted_exp, now)
             industry_analysis == AnalyzeIndustries(sorted_exp)
             trajectory_analysis == AnalyzeTrajectory(sorted_exp)
         IN  [total_experience_years |-> CalculateTotalExperience(sorted_exp, now),
              employment_gaps |-> gaps,
              has_significant_gaps |-> HasSignificantGaps(gaps),
              average_tenure_months |-> stability.average_tenure_months,
              shortest_tenure |-> stability.shortest_tenure,
              longest_tenure |-> stability.longest_tenure,
              job_hopping_risk |-> stability.job_hopping_risk,
              roles_under_1_year |-> stability.roles_under_1_year,
              roles_under_2_years |-> stability.roles_under_2_years,
              industries_worked |-> industry_analysis.industries,
              industry_transitions |-> industry_analysis.transitions,
              is_industry_hopper |-> industry_analysis.is_hopper,
              primary_industry |-> industry_analysis.primary_industry,
              trajectory |-> trajectory_analysis.trajectory,
              seniority_progression |-> trajectory_analysis.seniority_progression,
              title_changes |-> trajectory_analysis.title_changes]

-----------------------------------------------------------------------------
(* Calls of CareerAnalytics.analyze *)

\* The lists of at most n items of S
RECURSIVE SeqsUpTo(_, _)
SeqsUpTo(S, n) ==
    IF n = 0 THEN {<<>>}
    ELSE LET shorter == SeqsUpTo(S, n - 1)
         IN  shorter \cup {Append(q, x) : q \in shorter, x \in S}

MaxEntries == 3
MaxTenures == 4

\* An experience entry; duration_months 0 and industry "" stand for an entry
\* without the key
Entry(company, title, start_date, end_date, is_current, duration_months) ==
    [company |-> company, title |-> title, start_date |-> start_date,
     end_date |-> end_date, is_current |-> is_current,
     duration_months |-> duration_months, industry |-> ""]

\* Dated jobs: two that are seven months apart, one that starts thirty days
\* after the first ends, jobs without a start or an end, a job that ends before
\* it starts, and a long job that overlaps the others
JobA == Entry("JobA", "", YearMonth(2019, 1), YearMonth(2019, 11), FALSE, 0)
JobB == Entry("JobB", "", YearMonth(2020, 6), Present, TRUE, 0)
JobC == Entry("JobC", "", YearMonth(2019, 12), YearMonth(2020, 6), FALSE, 0)
JobD == Entry("JobD", "", NoDate, YearMonth(2019, 1), FALSE, 0)
JobE == Entry("JobE", "", YearOnly(2019), NoDate, FALSE, 0)
JobF == Entry("JobF", "", YearMonth(2020, 6), YearMonth(2019, 1), FALSE, 0)
JobG == Entry("JobG", "", YearSlashMonth(2019, 1), YearMonth(2020, 6), FALSE, 0)
DatedJobs == {JobA, JobB, JobC, JobD, JobE, JobF, JobG}

\* Roles known by their length only; the last has no length and no dates
Role(duration_months) ==
    Entry("Google", "Engineer", NoDate, NoDate, FALSE, duration_months)
Roles == {Role(5), Role(14), Role(30), Role(0)}

\* Positions by title and company
Position(title, company) == Entry(company, title, NoDate, NoDate, FALSE, 0)
Positions ==
    {Position("Intern", "Google"), Position("Engineer", "Google"),
     Position("Analyst", "Google"), Position("Engineer", "Meta"),
     Position("Senior Engineer", "Meta"), Position("Staff Engineer", "Meta"),
     Position("Head of Engineering", "Meta")}

\* Employers by industry: three known companies of different industries, a
\* second one in technology, and an unknown one that names its industry
Employers ==
    {Position("Engineer", "Google"), Position("Engineer", "Meta"),
     Position("Engineer", "JPMorgan"),
     [Position("Engineer", "Pfizer") EXCEPT !.duration_months = 30],
     [Position("Engineer", "Acme") EXCEPT !.industry = "fintech"]}

\* The entries of a list given start dates a year apart, the list running
\* from the oldest to the most recent or the other way round
Dated(entries, oldest_first) ==
    [i \in 1..Len(entries) |->
        [entries[i] EXCEPT !.start_date =
            YearMonth(IF oldest_first THEN 2010 + i ELSE 2020 - i, 1)]]

\* datetime.now() at the time of the calls
NowDates == {Time(2021, 1), Time(2021, 7)}
FirstNow == Time(2021, 1)

\* The calls made: a value of now and a list of entries
CareerInputs ==
    (NowDates \X SeqsUpTo(DatedJobs, MaxEntries))
    \cup ({FirstNow} \X SeqsUpTo(Roles, MaxTenures))
    \cup {<<FirstNow, Dated(entries, oldest_first)>> :
             entries \in SeqsUpTo(Positions, MaxEntries) \cup
                         SeqsUpTo(Employers, MaxEntries),
             oldest_first \in BOOLEAN}

\* No analysis was made before
NotAnalysed == <<>>

\* analyze(experiences)
AnalyzeList(now, experiences) ==
    /\ call.op = "none"
    /\ call' = [op |-> "analyze", now |-> now, given |-> experiences,
                experiences |-> CallerListAfterAnalyze(experiences),
                insights |-> Analyze(experiences, now),
                prior |-> NotAnalysed, calls |-> 1, extended |-> FALSE]
    /\ UNCHANGED <<sessions, engines, tasks, issued, last>>

\* analyze(experiences) once more, on the list the first call left
AnalyzeAgain ==
    /\ call.op = "analyze" /\ call.calls = 1
    /\ call' = [call EXCEPT
                   !.experiences = CallerListAfterAnalyze(call.experiences),
                   !.insights = Analyze(call.experiences, call.now),
                   !.prior = call.insights, !.calls = 2]
    /\ UNCHANGED <<sessions, engines, tasks, issued, last>>

\* Later ends for an entry
LaterEnds == {YearMonth(2019, 12), YearMonth(2020, 7), YearMonth(2021, 3)}

\* The caller replaces the end of entry i by a later date and calls analyze
\* on the new list
AnalyzeExtended(i, later) ==
    LET experiences == [call.given EXCEPT ![i].end_date = later]
    IN  /\ call.op = "analyze" /\ call.calls = 1
        /\ i \in 1..Len(call.given)
        /\ ParseDate(call.given[i].end_date) # NoTime
        /\ MonthIndex(ParseDate(later)) > MonthIndex(ParseDate(call.given[i].end_date))
        /\ call' = [call EXCEPT
                       !.given = experiences,
                       !.experiences = CallerListAfterAnalyze(experiences),
                       !.insights = Analyze(experiences, call.now),
                       !.prior = call.insights, !.calls = 2,
                       !.extended = TRUE]
        /\ UNCHANGED <<sessions, engines, tasks, issued, last>>

CareerNext ==
    \/ /\ call.op = "none"
       /\ \E in \in CareerInputs : AnalyzeList(in[1], in[2])
    \/ AnalyzeAgain
    \/ \E i \in 1..MaxEntries, later \in LaterEnds : AnalyzeExtended(i, later)

CareerSpec == Init /\ [][CareerNext]_vars

-----------------------------------------------------------------------------
(* The question strategy on its own *)

MaxAsked == 3

\* A question dict as generate_next_question receives it
TypedQuestion(text, question_type, is_follow_up) ==
    [text |-> text, topic |-> "design", is_follow_up |-> is_follow_up,
     question_type |-> question_type]

\* Questions asked before: generated ones of several types, a follow-up, the
\* first smart question, and one whose dict has no question_type
AskedQuestions ==
    {TypedQuestion("gen", ty, FALSE) :
        ty \in {"technical", "resume_verification", "situational", "behavioral"}}
    \cup {TypedQuestion("follow_up", "follow_up", TRUE),
          TypedQuestion(SmartGap.question, SmartGap.category, FALSE),
          [text |-> "gen", topic |-> "design", is_follow_up |-> FALSE]}

\* Engine states: the topics still to probe and the red flags recorded by
\* _update_state_from_evaluation, with or without smart questions
ProbeLists == {<<>>, <<"design">>, <<"teamwork", "design">>}
FlagLists == {<<>>, <<"design">>}

EngineWith(smart, areas, flags) ==
    [NewEngine(TRUE, smart) EXCEPT !.areas_needing_probe = areas,
                                   !.red_flags_detected = flags]

\* generate_next_question up to the strategy: the coverage of the questions
\* asked so far and the strategy chosen for the next main question
DetermineStrategy(e, previous_questions) ==
    /\ call.op = "none"
    /\ call' = [op |-> "strategy",
                engine |-> e,
                previous_questions |-> previous_questions,
                coverage |-> CalculateCompetencyCoverage(previous_questions),
                strategy |-> DetermineQuestionStrategy(e, previous_questions)]
    /\ UNCHANGED <<sessions, engines, tasks, issued, last>>

StrategyNext ==
    /\ call.op = "none"
    /\ \E smart \in SmartQuestionLists, areas \in ProbeLists, flags \in FlagLists,
          previous_questions \in SeqsUpTo(AskedQuestions, MaxAsked) :
           DetermineStrategy(EngineWith(smart, areas, flags), previous_questions)

StrategySpec == Init /\ [][StrategyNext]_vars

-----------------------------------------------------------------------------
(* Properties of the question strategy *)

StrategyChosen == call.op = "strategy"

\* The smart questions not asked yet, in the order of the engine's list
UnusedSmart(e, previous_questions) ==
    SelectSeq(e.smart_questions,
              LAMBDA sq : \A i \in 1..Len(previous_questions) :
                  previous_questions[i].text # sq.question)

\* The competency has the lowest coverage count
IsLowest(competency, coverage) ==
    \A c \in DOMAIN coverage : coverage[competency] <= coverage[c]

\* C19: the strategy for the next main question is a depth probe on the first
\* topic still marked as needing a probe; otherwise, if a red flag is
\* recorded, verification; otherwise, if an unused smart question exists, the
\* category of that question; otherwise it targets the competency with the
\* lowest coverage count
C19_StrategyPrecedence ==
    StrategyChosen =>
        LET e == call.engine
            st == call.strategy
            unused == UnusedSmart(e, call.previous_questions)
        IN  IF e.areas_needing_probe # <<>>
            THEN /\ st.question_type = "depth_probe"
                 /\ st.focus_area = e.areas_needing_probe[1]
            ELSE IF e.red_flags_detected # <<>>
            THEN st.question_type = "verification"
            ELSE IF unused # <<>>
            THEN st.question_type = unused[1].category
            ELSE /\ st.target_competency = st.focus_area
                 /\ IsLowest(st.target_competency, call.coverage)

\* A topic needs a probe while a red flag is recorded and a smart question is
\* unused, and the strategy is the depth probe
C19_ProbeBeforeFlag ==
    /\ StrategyChosen
    /\ call.engine.areas_needing_probe # <<>>
    /\ call.engine.red_flags_detected # <<>>
    /\ UnusedSmart(call.engine, call.previous_questions) # <<>>
    /\ call.strategy.question_type = "depth_probe"

\* C20: whatever questions were asked before, communication coverage is 0.5
\* times their number (one half each) and the lowest covered competency, the
\* one the default strategy targets, is not communication
C20_CommunicationNeverTargeted ==
    StrategyChosen =>
        /\ call.coverage["communication"] = Len(call.previous_questions)
        /\ LowestCompetency(call.coverage) # "communication"
        /\ call.strategy.target_competency # "communication"

\* The default strategy chosen after MaxAsked questions, a follow-up among
\* them, every competency other than communication being covered or not
C20_DefaultAfterFollowUp ==
    /\ StrategyChosen
    /\ Len(call.previous_questions) = MaxAsked
    /\ \E i \in 1..MaxAsked : call.previous_questions[i].is_follow_up
    /\ call.coverage["communication"] = MaxAsked
    /\ call.strategy.intensity = "moderate"
    /\ call.strategy.focus_area = call.strategy.target_competency

-----------------------------------------------------------------------------
(* Properties of CareerAnalytics.analyze *)

Analysed == call.op = "analyze"

\* Scenario A: JobA from 2019-01 to 2019-11, JobB from 2020-06, current
ScenarioA == <<JobA, JobB>>

\* C11 (as stated): Scenario A reports exactly one employment gap, of 7
\* months, with severity "medium", and has_significant_gaps is False
C11_ScenarioAMedium ==
    Analysed /\ call.given = ScenarioA =>
        LET gaps == call.insights.employment_gaps
        IN  /\ Len(gaps) = 1
            /\ gaps[1].duration_months = 7
            /\ gaps[1].severity = "medium"
            /\ ~call.insights.has_significant_gaps

\* C11 (amended): Scenario A reports exactly one employment gap, of 7 months,
\* between JobA and JobB, with severity "significant", and
\* has_significant_gaps is True
C11_ScenarioASignificant ==
    Analysed /\ call.given = ScenarioA =>
        LET gaps == call.insights.employment_gaps
        IN  /\ Len(gaps) = 1
            /\ gaps[1].duration_months = 7
            /\ gaps[1].between_companies = <<"JobA", "JobB">>
            /\ gaps[1].severity = "significant"
            /\ call.insights.has_significant_gaps

\* Scenario A has been analysed
C11_ScenarioAAnalysed ==
    Analysed /\ call.given = ScenarioA /\ call.calls = 1

\* The entries oldest first, in the order the analysis walks them
Chronological(experiences) == SortedAscending(SortExperiences(experiences))

\* C12: with the entries sorted ascending by start, a gap is reported for an
\* adjacent pair if and only if the earlier entry is not current, its end and
\* the later entry's start are resolvable and lie more than 30 days apart;
\* its duration_months is floor(days / 30), which is at least 1
C12_GapDetection ==
    Analysed =>
        LET asc == Chronological(call.given)
            gaps == call.insights.employment_gaps
            days(i) == DaysBetween(ParseDate(asc[i].end_date),
                                   ParseDate(asc[i + 1].start_date))
            Due(i) == /\ ~asc[i].is_current
                      /\ ParseDate(asc[i].end_date) # NoTime
                      /\ ParseDate(asc[i + 1].start_date) # NoTime
                      /\ days(i) > 30
            due == SelectSeq([i \in 1..(Len(asc) - 1) |-> i], Due)
        IN  /\ Len(gaps) = Len(due)
            /\ \A k \in 1..Len(gaps) :
                  /\ gaps[k].start = ParseDate(asc[due[k]].end_date)
                  /\ gaps[k].end = ParseDate(asc[due[k] + 1].start_date)
                  /\ gaps[k].between_companies =
                         <<asc[due[k]].company, asc[due[k] + 1].company>>
                  /\ gaps[k].duration_months = days(due[k]) \div 30
                  /\ gaps[k].duration_months >= 1

\* Three entries analysed: one pair with a gap, the other pair without one
\* because a date is unresolvable, the earlier entry is current or the entries
\* are no more than 30 days apart
C12_OneGapOfTwoPairs ==
    /\ Analysed
    /\ Len(call.given) = 3
    /\ Len(call.insights.employment_gaps) = 1
    /\ \E i \in 1..2 :
          LET asc == Chronological(call.given)
          IN  \/ ParseDate(asc[i].end_date) = NoTime
              \/ ParseDate(asc[i + 1].start_date) = NoTime
              \/ asc[i].is_current
              \/ DaysBetween(ParseDate(asc[i].end_date),
                             ParseDate(asc[i + 1].start_date)) <= 30

\* The risk level as the rule states it, from the number of roles under one
\* year, the number of entries and the average tenure (a sum of months over a
\* number of tenures)
RiskAsStated(roles_under_1yr, entries, total_months, tenure_count) ==
    IF roles_under_1yr >= 3 \/ (entries > 2 /\ roles_under_1yr >= 2)
    THEN "high"
    ELSE IF roles_under_1yr >= 2
            \/ (entries > 3 /\ total_months < 18 * tenure_count)
    THEN "medium"
    ELSE IF roles_under_1yr >= 1 \/ total_months < 24 * tenure_count
    THEN "low"
    ELSE "none"

\* C13 (as stated): the stability risk is the stated function of
\* roles_under_1yr, the number of entries passed to analyze and the average
\* tenure (here for lists with at least one tenure, where the average is
\* defined)
C13_RiskFromEntriesPassed ==
    Analysed =>
        LET n == Len(call.given)
            months == [i \in 1..n |-> TenureMonths(call.given[i], call.now)]
            tenures == {i \in 1..n : months[i] > 0}
        IN  tenures # {} =>
                call.insights.job_hopping_risk =
                    RiskAsStated(call.insights.roles_under_1_year, n,
                                 SumOver(months, tenures), Cardinality(tenures))

\* C13 (amended): the stability risk is the stated function of
\* roles_under_1yr, the number of entries that have a tenure of more than 0
\* months and the average of those tenures, and none when no entry has one;
\* 3 roles under one year always give high
C13_RiskFromTenures ==
    Analysed =>
        LET n == Len(call.given)
            months == [i \in 1..n |-> TenureMonths(call.given[i], call.now)]
            tenures == {i \in 1..n : months[i] > 0}
        IN  /\ call.insights.job_hopping_risk =
                   IF tenures = {} THEN "none"
                   ELSE RiskAsStated(call.insights.roles_under_1_year,
                                     Cardinality(tenures),
                                     SumOver(months, tenures), Cardinality(tenures))
            /\ call.insights.roles_under_1_year >= 3 =>
                   call.insights.job_hopping_risk = "high"

\* Three entries have been analysed: two with a tenure under one year and one
\* without a tenure, and the risk is medium
C13_EntryWithoutTenure ==
    /\ Analysed
    /\ Len(call.given) = 3
    /\ call.insights.roles_under_1_year = 2
    /\ \E i \in 1..3 : TenureMonths(call.given[i], call.now) = 0
    /\ call.insights.job_hopping_risk = "medium"

\* C14: total_experience_years is never negative, and replacing one entry's
\* end by a later date does not decrease it
C14_ExperienceNonNegativeMonotone ==
    Analysed =>
        /\ call.insights.total_experience_years >= 0
        /\ call.extended =>
              call.insights.total_experience_years
                  >= call.prior.total_experience_years

C16_IndustryHopping ==
    Analysed =>
        LET n == Len(call.given)
            asc == Chronological(call.given)
            transitions == call.insights.industry_transitions
            changes == SelectSeq([i \in 1..(n - 1) |-> i + 1],
                                 LAMBDA i : IndustryOf(asc[i]) # IndustryOf(asc[i - 1]))
        IN  /\ call.insights.is_industry_hopper <=>
                   Cardinality({IndustryOf(call.given[i]) : i \in 1..n}) >= 3
            /\ Len(transitions) = Len(changes)
            /\ \A k \in 1..Len(changes) :
                  /\ transitions[k].from_industry = IndustryOf(asc[changes[k] - 1])
                  /\ transitions[k].to_industry = IndustryOf(asc[changes[k]])
                  /\ transitions[k].to_company = asc[changes[k]].company
            /\ [i \in 1..n |-> asc[i].company] = <<"Google", "JPMorgan", "Pfizer">> =>
                  /\ call.insights.is_industry_hopper
                  /\ [k \in 1..Len(transitions) |->
                         <<transitions[k].from_industry, transitions[k].to_industry>>]
                     = <<<<"Technology", "Fintech">>, <<"Fintech", "Healthcare">>>>

\* Pfizer, JPMorgan, Google given most recent first have been analysed
C16_ScenarioCAnalysed ==
    /\ Analysed
    /\ [i \in 1..Len(call.given) |-> call.given[i].company]
           = <<"Pfizer", "JPMorgan", "Google">>
    /\ [i \in 1..Len(call.given) |-> Chronological(call.given)[i].company]
           = <<"Google", "JPMorgan", "Pfizer">>
    /\ Len(call.insights.industry_transitions) = 2

\* The place of a seniority level in the order junior < mid < senior <
\* staff_principal < director < executive
StatedLevel(seniority) ==
    LET order == <<"junior", "mid", "senior", "staff_principal", "director",
                   "executive">>
    IN  CHOOSE i \in 1..Len(order) : order[i] = seniority

\* C17: a recorded title change is a promotion when the level that
\* classify_seniority assigns went up in the order junior < mid < senior <
\* staff_principal < director < executive, a demotion when it went down, and
\* at an equal level lateral when the company differs, else role_change
C17_TitleChangeClassification ==
    Analysed =>
        \A k \in 1..Len(call.insights.title_changes) :
            LET change == call.insights.title_changes[k]
                from == StatedLevel(ClassifySeniority(change.from_title))
                to == StatedLevel(ClassifySeniority(change.to_title))
            IN  change.change_type =
                    IF to > from THEN "promotion"
                    ELSE IF to < from THEN "demotion"
                    ELSE IF change.to_company # change.from_company THEN "lateral"
                    ELSE "role_change"

\* The moves between consecutive entries of the seniority progression, by
\* the numeric levels of the analysis
MovesUp == Upward([i \in 1..Len(call.insights.seniority_progression) |->
                      GetSeniorityLevel(call.insights.seniority_progression[i])])
MovesDown == Downward([i \in 1..Len(call.insights.seniority_progression) |->
                          GetSeniorityLevel(call.insights.seniority_progression[i])])
MovesLateral == Len(call.insights.seniority_progression) - 1 - MovesUp - MovesDown

\* C18 (as stated): the trajectory is the category with the largest count of
\* moves, ties going to ascending, then descending, then lateral; unknown for
\* fewer than 2 entries
C18_TrajectoryMajority ==
    Analysed =>
        call.insights.trajectory =
            IF Len(call.given) < 2 THEN "unknown"
            ELSE IF MovesUp >= MovesDown /\ MovesUp >= MovesLateral
            THEN "ascending"
            ELSE IF MovesDown >= MovesLateral THEN "descending"
            ELSE "lateral"

\* C18 (amended): the trajectory is lateral when the lateral moves outnumber
\* the upward and the downward ones; otherwise ascending when the upward moves
\* outnumber the downward ones, descending when the downward moves outnumber
\* the upward ones, and mixed when there are as many upward as downward moves;
\* unknown for fewer than 2 entries
C18_TrajectoryMixedOnEvenMoves ==
    Analysed =>
        call.insights.trajectory =
            IF Len(call.given) < 2 THEN "unknown"
            ELSE IF MovesLateral > MovesUp /\ MovesLateral > MovesDown
            THEN "lateral"
            ELSE IF MovesUp > MovesDown THEN "ascending"
            ELSE IF MovesDown > MovesUp THEN "descending"
            ELSE "mixed"

\* One move up and one move down have been analysed
C18_OneUpOneDown ==
    /\ Analysed
    /\ MovesUp = 1 /\ MovesDown = 1 /\ MovesLateral = 0
    /\ call.insights.trajectory = "mixed"

-----------------------------------------------------------------------------
(* Next-question generation that fails, on its own *)

MaxNumQuestions == 10
MaxFailures == 2

\* _generate_question_with_reasoning raises in generate_json with n questions
\* asked before; a session's question list only grows, so a later failure has
\* more questions before it
GenerationFails(n) ==
    LET previous_questions ==
            Repeat([text |-> "gen", topic |-> "design", is_follow_up |-> FALSE], n)
        failure == [question_number |-> n,
                    question |-> GenerateQuestionWithReasoning(previous_questions,
                                                               Failed)]
    IN  /\ \/ call.op = "none"
           \/ /\ call.op = "fallback"
              /\ Len(call.failures) < MaxFailures
              /\ n > call.failures[Len(call.failures)].question_number
        /\ call' = [op |-> "fallback",
                    failures |-> IF call.op = "none" THEN <<failure>>
                                 ELSE Append(call.failures, failure)]
        /\ UNCHANGED <<sessions, engines, tasks, issued, last>>

\* A session of num_questions main questions has at most 2 * num_questions
\* questions, so at most 2 * num_questions - 1 before the one generated
FallbackNext == \E n \in 0..(2 * MaxNumQuestions - 1) : GenerationFails(n)

FallbackSpec == Init /\ [][FallbackNext]_vars

\* C21: the question substituted when next-question generation fails is the
\* entry of the fallback list at the question number, rotating through the
\* list, so two fallback questions whose question numbers differ by less than
\* the length of the list are different questions
C21_FallbackRotates ==
    call.op = "fallback" =>
        /\ \A i \in 1..Len(call.failures) :
               call.failures[i].question.text =
                   FallbackTexts[(call.failures[i].question_number % FallbackCount) + 1]
        /\ \A i, j \in 1..Len(call.failures) :
               /\ i < j
               /\ call.failures[j].question_number
                      - call.failures[i].question_number < FallbackCount
               => call.failures[i].question # call.failures[j].question

-----------------------------------------------------------------------------
(* Evaluations and their aggregate, on their own *)

MaxEvaluations == 3

\* What generate_json returns to _evaluate_with_reasoning: it raises, or
\* returns scores in range, above 10, below 0, not numbers, with keys missing,
\* and an overall_score of its own, in range or not
EvaluatorResults ==
    {Failed,
     Returned(SolidAnswer, "none", FALSE, FALSE),
     Returned(DoubtfulAnswer, "none", FALSE, FALSE),
     Returned(RawEvaluation(0 - 3, FALSE, 0), "none", FALSE, FALSE),
     Returned([SolidAnswer EXCEPT !.scores = [k \in ScoreKeys |-> NotANumber]],
              "none", FALSE, FALSE),
     Returned([SolidAnswer EXCEPT !.scores = [k \in {"content"} |-> RawScore(8)]],
              "none", FALSE, FALSE),
     Returned([SolidAnswer EXCEPT !.has_overall = TRUE, !.overall_score = 6],
              "none", FALSE, FALSE),
     Returned([SolidAnswer EXCEPT !.has_overall = TRUE, !.overall_score = 15],
              "none", FALSE, FALSE)}

\* Evaluations of an engine that scores only some of the dimensions, or none
PartialEvaluations ==
    {[DefaultEvaluation EXCEPT !.scores = [k \in {"content"} |-> 6],
                               !.is_default = FALSE],
     [DefaultEvaluation EXCEPT
         !.scores = [k \in {"content", "communication"} |-> 9],
         !.is_default = FALSE],
     [DefaultEvaluation EXCEPT !.scores = <<>>, !.is_default = FALSE]}

\* session["evaluations"].append(evaluation), then calculate_aggregate_scores
\* over the list as the completion and end_interview compute it
Scored(evaluation) ==
    LET evaluations == IF call.op = "none" THEN <<evaluation>>
                       ELSE Append(call.evaluations, evaluation)
    IN  [op |-> "scoring",
         evaluations |-> evaluations,
         aggregate_scores |-> CalculateAggregateScores(evaluations)]

\* Fewer than MaxEvaluations evaluations are stored
MayScore ==
    \/ call.op = "none"
    \/ call.op = "scoring" /\ Len(call.evaluations) < MaxEvaluations

\* evaluate_response_deep: the evaluation of _evaluate_with_reasoning
EvaluateResponseDeep(outcome) ==
    /\ MayScore
    /\ call' = Scored(EvaluateWithReasoning(outcome))
    /\ UNCHANGED <<sessions, engines, tasks, issued, last>>

\* An evaluation that did not pass through _validate_evaluation
StoreEvaluation(evaluation) ==
    /\ MayScore
    /\ call' = Scored(evaluation)
    /\ UNCHANGED <<sessions, engines, tasks, issued, last>>

ScoringNext ==
    \/ \E outcome \in EvaluatorResults : EvaluateResponseDeep(outcome)
    \/ \E evaluation \in PartialEvaluations : StoreEvaluation(evaluation)

ScoringSpec == Init /\ [][ScoringNext]_vars

\* C22: the aggregate of a dimension is the average, scaled to 0-100, over
\* exactly the evaluations that contain the dimension, an evaluation without
\* the key being left out; overall is the mean of the aggregates of the
\* dimensions; an empty list gives an empty result
C22_AggregateIgnoresMissing ==
    call.op = "scoring" =>
        LET evaluations == call.evaluations
            having(k) == {i \in 1..Len(evaluations) :
                             k \in DOMAIN evaluations[i].scores}
            keys == {k \in ScoreKeys : having(k) # {}}
            average(k) ==
                RoundHalfEven(
                    100 * SumOver([i \in having(k) |-> evaluations[i].scores[k]],
                                  having(k)),
                    Cardinality(having(k)))
            averages == [k \in keys |-> average(k)]
        IN  IF keys = {} THEN call.aggregate_scores = <<>>
            ELSE /\ DOMAIN call.aggregate_scores = keys \cup {"overall"}
                 /\ \A k \in keys : call.aggregate_scores[k] = average(k)
                 /\ call.aggregate_scores["overall"] =
                        RoundHalfEven(SumOver(averages, keys), Cardinality(keys))

\* The evaluations that evaluate_response_deep returned
FromEvaluateResponseDeep(evaluation) ==
    \E outcome \in EvaluatorResults : evaluation = EvaluateWithReasoning(outcome)

\* C23: each of the six scores and overall_score of an evaluation returned by
\* evaluate_response_deep lies in 0..10 whatever the evaluator returned, and
\* every aggregate score of such evaluations lies in 0..100
C23_ScoresInRange ==
    call.op = "scoring" =>
        /\ \A i \in 1..Len(call.evaluations) :
              LET evaluation == call.evaluations[i]
              IN  FromEvaluateResponseDeep(evaluation) =>
                      /\ DOMAIN evaluation.scores = ScoreKeys
                      /\ \A k \in ScoreKeys : evaluation.scores[k] \in 0..MaxScore
                      /\ evaluation.overall_score_x6 \in 0..(6 * MaxScore)
        /\ (\A i \in 1..Len(call.evaluations) :
                FromEvaluateResponseDeep(call.evaluations[i]))
           => \A k \in DOMAIN call.aggregate_scores :
                  call.aggregate_scores[k] \in 0..(100 * MaxScore)

(* ResumeQuestionGenerator.generate_questions, on its own *)

MaxGaps == 2
MaxQuestions == 4

\* The questions of one category: InterviewQuestion with its category, its
\* priority and its place among the questions of the category (the text,
\* context and follow_ups depend on a random template and are left out)
QuestionsOf(category, priorities) ==
    SubSeq([i \in 1..Len(priorities) |->
               [category |-> category, priority |-> priorities[i], n |-> i]],
           1, Len(priorities))

Asked(priority) == priority # "none"

GenerateGapQuestions(gaps) ==
    QuestionsOf("gap",
        SelectSeq(SubSeq([i \in 1..Len(gaps) |->
                             IF gaps[i].severity = "significant" THEN "high"
                             ELSE IF gaps[i].severity = "medium" THEN "medium"
                             ELSE "none"], 1, Len(gaps)),
                  Asked))

ShortRole(e) == e.duration_months < 12

GenerateJobChangeQuestions(insights, experiences) ==
    IF /\ insights.roles_under_1_year >= 2
       /\ SelectSeq(experiences, ShortRole) # <<>>
    THEN QuestionsOf("job_change",
             <<IF insights.job_hopping_risk = "high" THEN "high" ELSE "medium">>)
    ELSE <<>>

GenerateIndustryQuestions(insights) ==
    IF insights.industry_transitions # <<>>
    THEN QuestionsOf("industry", <<"medium">>)
    ELSE <<>>

GenerateRedFlagQuestions(insights) ==
    QuestionsOf("red_flag",
        SelectSeq(SubSeq([i \in 1..Len(insights.red_flags) |->
                             IF insights.red_flags[i].flag_type
                                    \in {"date_overlap", "short_recent_tenure"}
                             THEN "high" ELSE "none"],
                         1, Len(insights.red_flags)),
                  Asked))

GenerateTrajectoryQuestions(insights) ==
    LET changes == insights.title_changes
        recent == SubSeq(changes, Max(1, Len(changes) - 1), Len(changes))
    IN  QuestionsOf("experience",
            SelectSeq(SubSeq([i \in 1..Len(recent) |->
                                 IF recent[i].change_type = "demotion" THEN "medium"
                                 ELSE IF recent[i].change_type \in {"promotion", "lateral"}
                                      THEN "low"
                                 ELSE "none"], 1, Len(recent)),
                      Asked))

\* A responsibility that contains a digit and one of the skill keywords
Quantified(resp) == resp.digit /\ resp.keyword

GenerateDepthQuestions(experiences) ==
    LET recent == SubSeq(experiences, 1, Min(3, Len(experiences)))
        first_two(e) == SubSeq(e.responsibilities, 1, Min(2, Len(e.responsibilities)))
    IN  QuestionsOf("depth",
            SelectSeq(SubSeq([i \in 1..Len(recent) |->
                                 IF SelectSeq(first_two(recent[i]), Quantified) # <<>>
                                 THEN "low" ELSE "none"], 1, Len(recent)),
                      Asked))

\* The list generate_questions holds before it sorts
AllQuestions(insights, experiences) ==
    GenerateGapQuestions(insights.employment_gaps)
    \o (IF insights.job_hopping_risk \in {"medium", "high"}
        THEN GenerateJobChangeQuestions(insights, experiences) ELSE <<>>)
    \o (IF insights.is_industry_hopper \/ insights.industry_transitions # <<>>
        THEN GenerateIndustryQuestions(insights) ELSE <<>>)
    \o GenerateRedFlagQuestions(insights)
    \o (IF insights.title_changes # <<>>
        THEN GenerateTrajectoryQuestions(insights) ELSE <<>>)
    \o (IF experiences # <<>> THEN GenerateDepthQuestions(experiences) ELSE <<>>)

\* priority_order.get(q.priority, 1)
PriorityOrder(priority) ==
    CASE priority = "high" -> 0
      [] priority = "medium" -> 1
      [] priority = "low" -> 2
      [] OTHER -> 1

GenerateQuestionsCutFirst(insights, experiences, max_questions) ==
    LET questions == AllQuestions(insights, experiences)
        cut == SubSeq(questions, 1, Min(max_questions, Len(questions)))
    IN  StableSort(cut,
                   [i \in 1..Len(cut) |-> PriorityOrder(cut[i].priority)],
                   FALSE)

GenerateQuestions(insights, experiences, max_questions) ==
    LET questions == AllQuestions(insights, experiences)
        sorted == StableSort(questions,
                             [i \in 1..Len(questions) |->
                                 PriorityOrder(questions[i].priority)],
                             FALSE)
    IN  SubSeq(sorted, 1, Min(max_questions, Len(sorted)))

Gap(severity) == [severity |-> severity]
RedFlag(flag_type) == [flag_type |-> flag_type]
TitleChange(change_type) == [change_type |-> change_type]
Responsibility(digit, keyword) == [digit |-> digit, keyword |-> keyword]
PastRole(duration_months, responsibilities) ==
    [duration_months |-> duration_months, responsibilities |-> responsibilities]

GapLists == SeqsUpTo({Gap("minor"), Gap("medium"), Gap("significant")}, MaxGaps)

\* job_hopping_risk with roles_under_1_year
StabilityCases == {<<"low", 0>>, <<"medium", 1>>, <<"medium", 2>>, <<"high", 3>>}

\* is_industry_hopper with industry_transitions
IndustryCases ==
    {<<FALSE, <<>> >>, <<FALSE, <<"Technology to Fintech">> >>,
     <<TRUE, <<"Technology to Fintech", "Fintech to Healthcare">> >>}

RedFlagLists ==
    {<<>>, <<RedFlag("date_overlap")>>,
     <<RedFlag("employment_gap"), RedFlag("short_recent_tenure"),
       RedFlag("date_overlap")>>}

TitleChangeLists ==
    {<<>>, <<TitleChange("demotion"), TitleChange("promotion")>>,
     <<TitleChange("promotion"), TitleChange("lateral"), TitleChange("demotion")>>}

ExperienceLists ==
    {<<>>,
     <<PastRole(8, <<Responsibility(TRUE, TRUE)>>)>>,
     <<PastRole(30, <<Responsibility(TRUE, FALSE), Responsibility(TRUE, TRUE)>>),
       PastRole(6, <<Responsibility(FALSE, TRUE)>>),
       PastRole(24, <<Responsibility(FALSE, FALSE), Responsibility(FALSE, FALSE),
                  Responsibility(TRUE, TRUE)>>),
       PastRole(40, <<Responsibility(TRUE, TRUE)>>)>>,
     <<PastRole(30, <<Responsibility(TRUE, TRUE)>>),
       PastRole(18, <<Responsibility(TRUE, TRUE)>>)>>}

InsightsCases ==
    [employment_gaps : GapLists, stability : StabilityCases,
     industry : IndustryCases, red_flags : RedFlagLists,
     title_changes : TitleChangeLists]

InsightsOf(c) ==
    [employment_gaps |-> c.employment_gaps,
     job_hopping_risk |-> c.stability[1],
     roles_under_1_year |-> c.stability[2],
     is_industry_hopper |-> c.industry[1],
     industry_transitions |-> c.industry[2],
     red_flags |-> c.red_flags,
     title_changes |-> c.title_changes]

\* max_questions: the small limits and the two limits the callers pass
QuestionLimits == (0..MaxQuestions) \cup {10, 15}

CallGenerateQuestions(insights, experiences, max_questions) ==
    /\ call' = [op |-> "questions",
                insights |-> insights,
                experiences |-> experiences,
                max_questions |-> max_questions,
                generated |-> AllQuestions(insights, experiences),
                questions |-> GenerateQuestions(insights, experiences, max_questions)]
    /\ UNCHANGED <<sessions, engines, tasks, issued, last>>

QuestionsNext ==
    /\ call.op = "none"
    /\ \E c \in InsightsCases, experiences \in ExperienceLists,
          max_questions \in QuestionLimits :
          CallGenerateQuestions(InsightsOf(c), experiences, max_questions)

QuestionsSpec == Init /\ [][QuestionsNext]_vars

\* The tier of a question as the specification states it
TierOf(q) ==
    CASE q.priority = "high" -> 1
      [] q.priority = "medium" -> 2
      [] q.priority = "low" -> 3

\* The place of a question's category in the generation order: gap,
\* job_change, industry, red_flag, trajectory (category experience), depth
PlaceOf(q) ==
    CASE q.category = "gap" -> 1
      [] q.category = "job_change" -> 2
      [] q.category = "industry" -> 3
      [] q.category = "red_flag" -> 4
      [] q.category = "experience" -> 5
      [] q.category = "depth" -> 6

RankedBefore(a, b) ==
    \/ TierOf(a) < TierOf(b)
    \/ /\ TierOf(a) = TierOf(b)
       /\ \/ PlaceOf(a) < PlaceOf(b)
          \/ PlaceOf(a) = PlaceOf(b) /\ a.n < b.n

\* C24: generate_questions returns at most max_questions questions, every
\* high question before every medium one and every medium one before every low
\* one, questions of one priority in their generation order (gap, job_change,
\* industry, red_flag, trajectory, depth), and a question that was generated
\* but not returned ranks after every question returned
C24_PrioritySortedTruncated ==
    call.op = "questions" =>
        LET result == call.questions
            returned == {result[i] : i \in 1..Len(result)}
            all == {call.generated[i] : i \in 1..Len(call.generated)}
        IN  /\ Len(result) <= call.max_questions
            /\ Len(result) = Min(call.max_questions, Len(call.generated))
            /\ returned \subseteq all
            /\ \A q \in all : q.priority \in {"high", "medium", "low"}
            /\ \A i, j \in 1..Len(result) :
                   i < j => RankedBefore(result[i], result[j])
            /\ \A q \in all \ returned : \A r \in returned : RankedBefore(r, q)

\* A call whose limit drops questions, after a sort that moved a question
\* forward and kept two categories of one priority in generation order
C24_TruncatedAfterSort ==
    /\ call.op = "questions"
    /\ Len(call.generated) > call.max_questions
    /\ call.max_questions >= 3
    /\ \E i, j \in 1..Len(call.generated) :
           /\ i < j
           /\ TierOf(call.generated[j]) < TierOf(call.generated[i])
           /\ InSeq(call.generated[j], call.questions)
           /\ ~InSeq(call.generated[i], call.questions)
    /\ \E i, j \in 1..Len(call.questions) :
           /\ i < j
           /\ call.questions[i].priority = call.questions[j].priority
           /\ call.questions[i].category # call.questions[j].category

(* ExperienceExtractor.extract, on its own *)

MaxStructural == 2
MaxFallbackEntries == 2

\* None, and null in the JSON the fallback returns
Null == "null"

ExperienceEntry(company, end_date, responsibilities, industry) ==
    [company |-> company, title |-> "Engineer", end_date |-> end_date,
     responsibilities |-> responsibilities, industry |-> industry]

\* What _extract_with_regex recovers: entries of strings, industry not yet set
StructuralEntries(n) ==
    Repeat(ExperienceEntry("Google", "2021-01", <<"built 3 tools">>, Null), n)

\* An item of the list the fallback returns: something that is not a dict, or
\* a dict with these keys (no is_current key)
NotADict == [dict |-> FALSE]
ExperienceDict(company, end_date, responsibilities, industry) ==
    [dict |-> TRUE, company |-> company, end_date |-> end_date,
     responsibilities |-> responsibilities, industry |-> industry]

\* What generate_json gives: an exception, null, a dict whose "experiences" is
\* null, a dict with a list of experiences, or a bare list
FallbackRaises == [ok |-> FALSE]
FallbackNull == [ok |-> TRUE, kind |-> "null"]
FallbackNoList == [ok |-> TRUE, kind |-> "dict", has_list |-> FALSE]
FallbackList(kind, experiences) ==
    [ok |-> TRUE, kind |-> kind, has_list |-> TRUE, experiences |-> experiences]

\* exp.get("is_current", False) or exp.get("end_date", "").lower() in
\* ["present", "current", "now"]: None has no lower()
IsCurrentRaises(exp) == exp.end_date = Null
IsCurrent(exp) == exp.end_date = "Present"

EntryOfDict(exp) ==
    ExperienceEntry(exp.company,
                    IF IsCurrent(exp) THEN Null ELSE exp.end_date,
                    exp.responsibilities, exp.industry)

IsDict(exp) == exp.dict

\* _extract_via_llm: the entries of the dicts of the list, or no entry at all
\* when generate_json or the reading of any item raises
ExtractViaLlm(outcome) ==
    IF ~outcome.ok THEN <<>>
    ELSE IF outcome.kind = "null" THEN <<>>
    ELSE IF ~outcome.has_list THEN <<>>
    ELSE LET dicts == SelectSeq(outcome.experiences, IsDict)
         IN  IF \E i \in 1..Len(dicts) : IsCurrentRaises(dicts[i]) THEN <<>>
             ELSE SubSeq([i \in 1..Len(dicts) |-> EntryOfDict(dicts[i])],
                         1, Len(dicts))

\* classify(entry.company, entry.title, " ".join(entry.responsibilities))
\* raises on a company that is None and on responsibilities that cannot be
\* joined
ClassifyRaises(entry) ==
    \/ \E i \in 1..Len(entry.responsibilities) : entry.responsibilities[i] = Null
    \/ entry.company = Null

WithIndustry(entry) ==
    IF entry.industry = Null
    THEN [entry EXCEPT !.industry =
             FormatIndustryName(Classify(entry.company, entry.title))]
    ELSE entry

\* extract: the structural entries, the fallback behind the quality gate,
\* then the industry of every entry that has none
Extract(use_llm_fallback, structural, outcome) ==
    LET invoked == use_llm_fallback /\ Len(structural) < 2
        llm_entries == ExtractViaLlm(outcome)
        entries == IF invoked /\ Len(llm_entries) > Len(structural)
                   THEN llm_entries ELSE structural
        raised == \E i \in 1..Len(entries) :
                      entries[i].industry = Null /\ ClassifyRaises(entries[i])
    IN  [invoked |-> invoked,
         raised |-> raised,
         entries |-> IF raised THEN <<>>
                     ELSE SubSeq([i \in 1..Len(entries) |-> WithIndustry(entries[i])],
                                 1, Len(entries))]

FallbackItems ==
    {NotADict} \cup
    {ExperienceDict(company, end_date, responsibilities, industry) :
        company \in {"JPMorgan", Null},
        end_date \in {"2022-06", "Present", Null},
        responsibilities \in {<<"led 2 teams">>, <<Null>>},
        industry \in {Null, "Fintech"}}

FallbackOutcomes ==
    {FallbackRaises, FallbackNull, FallbackNoList}
    \cup {FallbackList(kind, experiences) :
            kind \in {"dict", "list"},
            experiences \in SeqsUpTo(FallbackItems, MaxFallbackEntries)}

CallExtract(use_llm_fallback, n, outcome) ==
    /\ call' = [op |-> "extract",
                use_llm_fallback |-> use_llm_fallback,
                structural |-> StructuralEntries(n),
                outcome |-> outcome,
                result |-> Extract(use_llm_fallback, StructuralEntries(n), outcome)]
    /\ UNCHANGED <<sessions, engines, tasks, issued, last>>

ExtractNext ==
    /\ call.op = "none"
    /\ \E use_llm_fallback \in BOOLEAN, n \in 0..MaxStructural,
          outcome \in FallbackOutcomes :
          CallExtract(use_llm_fallback, n, outcome)

ExtractSpec == Init /\ [][ExtractNext]_vars

\* Output of the fallback that is not a list of well-formed experiences
Malformed(outcome) ==
    /\ outcome.ok
    /\ \/ outcome.kind = "null"
       \/ ~outcome.has_list
       \/ \E i \in 1..Len(outcome.experiences) :
              LET exp == outcome.experiences[i]
              IN  \/ ~exp.dict
                  \/ exp.company = Null
                  \/ \E k \in 1..Len(exp.responsibilities) :
                         exp.responsibilities[k] = Null

\* The entries returned are the structural ones
StructuralReturned ==
    /\ Len(call.result.entries) = Len(call.structural)
    /\ \A i \in 1..Len(call.result.entries) :
           call.result.entries[i].company = "Google"

\* C25: extract invokes the fallback only when it is enabled and fewer than 2
\* entries were recovered structurally; it returns the fallback's entries only
\* if they are more numerous than the structural ones; and when the fallback
\* fails or returns malformed output it returns the structural entries and
\* does not raise
C25_QualityGate ==
    call.op = "extract" =>
        /\ call.result.invoked =>
               call.use_llm_fallback /\ Len(call.structural) < 2
        /\ (~call.result.raised /\ ~StructuralReturned) =>
               /\ call.result.invoked
               /\ Len(call.result.entries) > Len(call.structural)
        /\ (call.result.invoked /\ (~call.outcome.ok \/ Malformed(call.outcome))) =>
               ~call.result.raised /\ StructuralReturned

\* A call in which extract raised after the fallback returned an entry
ExtractRaisedOnFallbackEntry ==
    /\ call.op = "extract"
    /\ call.result.raised
    /\ Len(call.structural) = 1
    /\ Malformed(call.outcome)

-----------------------------------------------------------------------------
(* The session between calls that are applied one at a time *)

\* C26: between calls applied one at a time, a session holds at least one and
\* at most num_questions main questions and at most 2 * num_questions
\* questions in all, and every question returned to the caller carries a
\* question_number in 1..num_questions
C26_MainQuestionBound ==
    /\ Idle =>
           \A sid \in DOMAIN sessions :
               LET s == sessions[sid]
               IN  /\ MainQuestionCount(s.questions) \in 1..s.num_questions
                   /\ Len(s.questions) <= 2 * s.num_questions
    /\ last.result.next_question # NoQuestion =>
           /\ Known(last.sid)
           /\ last.result.question_number \in 1..sessions[last.sid].num_questions

\* The last main question was returned with its number, num_questions, after
\* two follow-ups had been asked on the way
C26_LastMainQuestionAsked ==
    /\ Idle
    /\ \E sid \in DOMAIN sessions :
           LET s == sessions[sid]
           IN  /\ s.status = "in_progress"
               /\ MainQuestionCount(s.questions) = s.num_questions
               /\ Len(s.questions) = s.num_questions + 2
               /\ last.op = "submit" /\ last.sid = sid
               /\ ~IsFollowUp(last.result.next_question)
               /\ last.result.question_number = s.num_questions

\* C27: between calls applied one at a time, an in_progress session has
\* current_question_index = len(questions) - 1 and len(questions) =
\* len(responses) + 1, also when the last submit_response ended with an error
C27_QuestionResponseAlignment ==
    Idle =>
        \A sid \in DOMAIN sessions :
            LET s == sessions[sid]
            IN  s.status = "in_progress" =>
                    /\ s.current_question_index = Len(s.questions) - 1
                    /\ Len(s.questions) = Len(s.responses) + 1

\* A submit_response ended with an error in a session that had answered a
\* main question and been asked a follow-up
C27_ErrorAfterFollowUp ==
    /\ Idle
    /\ last.op = "submit"
    /\ last.result.kind = "error"
    /\ Known(last.sid)
    /\ LET s == sessions[last.sid]
       IN  /\ s.status = "in_progress"
           /\ Len(s.responses) >= 1
           /\ IsFollowUp(s.questions[s.current_question_index + 1])

\* The question the session waits for an answer to
CurrentQuestion(s) == s.questions[s.current_question_index + 1]

\* C28: between calls applied one at a time, current_follow_up_count of an
\* in_progress session is 0 or 1, and it is 1 exactly when the current question
\* is a follow-up; a step that appends a main question leaves the counter at 0,
\* and a step that appends a follow-up leaves it at 1 and the number of main
\* questions as it was
C28_FollowUpCounter ==
    [][\A sid \in DOMAIN sessions' :
          LET s == sessions'[sid]
          IN  /\ (Idle' /\ s.status = "in_progress") =>
                     /\ s.current_follow_up_count \in {0, 1}
                     /\ s.current_follow_up_count = 1 <=> IsFollowUp(CurrentQuestion(s))
              /\ (sid \in DOMAIN sessions
                  /\ Len(s.questions) = Len(sessions[sid].questions) + 1) =>
                     IF IsFollowUp(s.questions[Len(s.questions)])
                     THEN /\ s.current_follow_up_count = 1
                          /\ MainQuestionCount(s.questions) =
                                 MainQuestionCount(sessions[sid].questions)
                     ELSE /\ s.current_follow_up_count = 0
                          /\ MainQuestionCount(s.questions) =
                                 MainQuestionCount(sessions[sid].questions) + 1
      ]_vars

\* A follow-up was asked and answered, the next main question was asked, and
\* a follow-up to that one is the current question
C28_SecondFollowUpCurrent ==
    /\ Idle
    /\ \E sid \in DOMAIN sessions :
           LET s == sessions[sid]
           IN  /\ s.status = "in_progress"
               /\ Len(s.questions) >= 4
               /\ IsFollowUp(s.questions[Len(s.questions) - 2])
               /\ ~IsFollowUp(s.questions[Len(s.questions) - 1])
               /\ IsFollowUp(CurrentQuestion(s))
               /\ s.current_follow_up_count = 1

-----------------------------------------------------------------------------
(* One interview answered to its end *)

\* The environment of an interview that is answered to its end.  The evaluator
\* recommends a follow-up or not on every turn, as it likes; the external calls
\* may fail while the first answer is handled (the first evaluation, and the
\* question that follows the first one); the answers are short and the resume
\* stays in place.
AnsweredEvalAllowed(o) ==
    /\ Known(1)
    /\ ~o.ok => sessions[1].evaluations = <<>>
    /\ o.ok => o.raw.red_flags = 0
    /\ o.follow_up_question <=> (o.raw.follow_up_recommended /\ ~sessions[1].is_advanced)

AnsweredQuestionAllowed(o) ==
    /\ Known(1)
    /\ ~o.ok => Len(sessions[1].questions) = 1

AnsweredNext ==
    \/ \E in \in StartInputs :
          /\ in[1] /\ issued = 0
          /\ StartBegin(1, in[1], in[2], MinNumQuestions, in[3])
          /\ UNCHANGED call
    \/ \E o \in IntroOutcomes : o.ok /\ StartIntroDone(1, o) /\ UNCHANGED call
    \/ \E o \in QuestionOutcomes : o.ok /\ StartFirstQuestionDone(1, o) /\ UNCHANGED call
    \/ SubmitBegin(1, 1, FiveWords) /\ UNCHANGED call
    \/ SubmitDepthEvaluated(1, TRUE) /\ UNCHANGED call
    \/ \E o \in EvalOutcomes :
          AnsweredEvalAllowed(o) /\ SubmitEvaluated(1, o) /\ UNCHANGED call
    \/ SubmitClosingDone(1) /\ UNCHANGED call
    \/ \E o \in QuestionOutcomes :
          AnsweredQuestionAllowed(o) /\ SubmitFollowUpDone(1, o) /\ UNCHANGED call
    \/ \E o \in QuestionOutcomes :
          AnsweredQuestionAllowed(o) /\ SubmitNextQuestionDone(1, o) /\ UNCHANGED call

\* Every call returns in the end and the client keeps submitting
AnsweredSpec == Init /\ [][AnsweredNext]_vars /\ WF_vars(AnsweredNext)

-----------------------------------------------------------------------------
(* Smart questions within a session *)

\* q is one of the engine's smart questions
IsSmartQuestion(e, q) ==
    \E i \in 1..Len(e.smart_questions) : e.smart_questions[i].question = q.text

TextAsked(text, questions) ==
    \E i \in 1..Len(questions) : questions[i].text = text

\* No probe topic and no red flag is pending, and a smart question of the
\* engine has not been asked
SmartQuestionDue(e, questions) ==
    /\ e.areas_needing_probe = <<>>
    /\ e.red_flags_detected = <<>>
    /\ \E i \in 1..Len(e.smart_questions) :
           ~TextAsked(e.smart_questions[i].question, questions)

\* C30: within a session, a smart question that generate_next_question returns
\* has a text that no question asked before carries, whatever strategies came
\* before; and when no probe topic and no red flag is pending and a smart
\* question is unused, generate_next_question returns a smart question and
\* does not call the external reasoning capability
C30_SmartQuestionsOnce ==
    [][\A sid \in DOMAIN sessions' :
          LET s == sessions'[sid]
              e == engines'[s.engine]
              before == IF sid \in DOMAIN sessions THEN sessions[sid].questions
                        ELSE <<>>
              asked == Len(s.questions) = Len(before) + 1
              q == s.questions[Len(s.questions)]
          IN  s.is_advanced =>
                  /\ (asked /\ ~IsFollowUp(q) /\ IsSmartQuestion(e, q)) =>
                         ~TextAsked(q.text, before)
                  /\ \A t \in Tasks :
                         (/\ tasks'[t].sid = sid
                          /\ tasks'[t].pc \in {"next_q", "start_first_q"}
                          /\ tasks[t].pc # tasks'[t].pc) =>
                             ~SmartQuestionDue(e, s.questions)
                  /\ \A t \in Tasks :
                         (/\ tasks[t].sid = sid
                          /\ tasks[t].pc = "eval"
                          /\ asked /\ ~IsFollowUp(q)
                          /\ SmartQuestionDue(e, before)) =>
                             IsSmartQuestion(e, q)
      ]_vars

\* Both smart questions were asked, each once, in a session in which a
\* follow-up had been recommended, and the last question is a generated one
C30_SmartQuestionsUsedUp ==
    /\ Idle
    /\ \E sid \in DOMAIN sessions :
           LET s == sessions[sid]
               e == engines[s.engine]
               texts(t) == {i \in 1..Len(s.questions) : s.questions[i].text = t}
           IN  /\ s.is_advanced
               /\ Len(e.smart_questions) = 2
               /\ \A i \in 1..Len(e.smart_questions) :
                      Cardinality(texts(e.smart_questions[i].question)) = 1
               /\ \E i \in 1..Len(s.evaluations) : s.evaluations[i].follow_up_recommended
               /\ ~IsFollowUp(s.questions[Len(s.questions)])
               /\ ~IsSmartQuestion(e, s.questions[Len(s.questions)])

====
